---- MODULE Spec2Model ----
(***************************************************************************)
(* A model of awsx: the Parameters collection (src/parameter.rs), the      *)
(* deployment-compatibility verifier (src/bin/util.rs) and the change-set  *)
(* pipelines (src/bin/command/*.rs, src/template.rs, src/stack.rs).        *)
(*                                                                         *)
(* The specifications share the variables:                                 *)
(*   SpecAlgebra   the operations of Parameters applied to drawn inputs    *)
(*   SpecOrder     sequences of the mutating operations of Parameters      *)
(*   SpecParse     Parameter::from_str applied to drawn strings            *)
(*   SpecFilter    apply_excludes_includes applied to drawn pattern lists  *)
(*   SpecVerify    verify_changes_compatible against a drawn repository    *)
(*   SpecMetadata  generate_deployment_metadata against a drawn work tree  *)
(*   SpecPipeline  create_stack / update_stack, statement by statement     *)
(*   SpecOverride  override_parameters, statement by statement             *)
(***************************************************************************)
EXTENDS Integers, Sequences, FiniteSets, TLC

\* ------------------------------------------------------------------------
\* Bounds
\* ------------------------------------------------------------------------
\* Longest Parameters collection drawn as an input of SpecAlgebra.
MaxLen == 2

\* Number of commits in the object database of the repository drawn as an
\* input of SpecVerify.
NumCommits == 3

\* Longest --exclude / --include pattern list drawn as an input of SpecFilter.
MaxPatterns == 2

\* Longest string drawn as an input of SpecParse.
MaxChars == 4

\* Parameter keys and values the inputs are drawn from.
Keys == {"X", "Y", "Z"}
Values == {"a", "b"}

\* The value slot of a parameter that carries no value.
NoValue == "-"

\* The absent return value of a method returning ().
Unit == "()"

\* Option<T>
Some(x) == [some |-> TRUE, v |-> x]

None(x) == [some |-> FALSE, v |-> x]

\* ------------------------------------------------------------------------
\* enum Parameter
\* ------------------------------------------------------------------------
WithValue(k, v) == [key |-> k, variant |-> "WithValue", value |-> v]

PreviousValue(k) == [key |-> k, variant |-> "PreviousValue", value |-> NoValue]

Parameter == {WithValue(k, v) : k \in Keys, v \in Values} \cup {PreviousValue(k) : k \in Keys}

previous_value(k) == PreviousValue(k)

is_previous_value(p) == p.variant = "PreviousValue"

key(p) == p.key

into_previous_value(p) == PreviousValue(p.key)

\* A plausible slip: the default also replaces a value that is already set.
set_default_value_overwrites(p, default) == WithValue(p.key, default)

set_default_value(p, default) ==
    IF p.variant = "WithValue" THEN p ELSE WithValue(p.key, default)

with_default_value(p, default) == set_default_value(p, default)

\* A string is the sequence of its characters; these are the characters the
\* strings handed to from_str are made of.
Chars == {"k", "v", "="}

Strings == UNION {[1..n -> Chars] : n \in 0..MaxChars}

\* Position of the first pat in s, 0 when there is none (str::find).
find(s, pat) ==
    IF \E i \in 1..Len(s) : s[i] = pat
    THEN CHOOSE i \in 1..Len(s) : s[i] = pat /\ \A j \in 1..(i - 1) : s[j] # pat
    ELSE 0

\* s.splitn(n, pat), collected: at most n items, the last one being the
\* rest of the string.
RECURSIVE splitn(_, _, _)
splitn(n, s, pat) ==
    IF n = 0 THEN <<>>
    ELSE IF n = 1 \/ find(s, pat) = 0 THEN <<s>>
    ELSE <<SubSeq(s, 1, find(s, pat) - 1)>>
             \o splitn(n - 1, SubSeq(s, find(s, pat) + 1, Len(s)), pat)

\* Result<Parameter, String>
OkParameter(p) == [tag |-> "Ok", val |-> p, err |-> "-"]

ErrString(e) == [tag |-> "Err", val |-> PreviousValue(<<>>), err |-> e]

\* A plausible slip: the string is split at its last '='.
from_str_rsplit(s) ==
    LET last == IF \E i \in 1..Len(s) : s[i] = "="
                THEN CHOOSE i \in 1..Len(s) : s[i] = "=" /\ \A j \in (i + 1)..Len(s) : s[j] # "="
                ELSE 0
    IN  IF last = 0
        THEN ErrString("Parameter needs to be provided in the form Key=Value")
        ELSE OkParameter(WithValue(SubSeq(s, 1, last - 1), SubSeq(s, last + 1, Len(s))))

\* impl FromStr for Parameter
from_str(s) ==
    LET split == splitn(2, s, "=")
    IN  IF Len(split) < 1
        THEN ErrString("Parameter needs to be provided in the form Key=Value")
        ELSE IF Len(split) < 2
        THEN ErrString("Parameter needs to be provided in the form Key=Value")
        ELSE OkParameter(WithValue(split[1], split[2]))

\* ------------------------------------------------------------------------
\* struct Parameters(IndexMap<String, Parameter>)
\*
\* An IndexMap is an insertion-ordered map.  Every map of the program is
\* built by Parameters::new or by insert(k, p) with k = p.key, so a map is
\* modelled as the sequence of its parameters, in iteration order, with
\* pairwise distinct keys.
\* ------------------------------------------------------------------------
Range(s) == {s[i] : i \in 1..Len(s)}

keys(m) == {m[i].key : i \in 1..Len(m)}

UniqueKeys(m) == \A i, j \in 1..Len(m) : m[i].key = m[j].key => i = j

\* Position of key k in m, 0 when absent (IndexMap::get_index_of).
index_of(m, k) == IF k \in keys(m) THEN CHOOSE i \in 1..Len(m) : m[i].key = k ELSE 0

contains_key(m, k) == index_of(m, k) # 0

\* IndexMap::get; only used where the key is present.
get(m, k) == m[index_of(m, k)]

\* IndexMap::insert: replace in place, or append.
insert(m, p) ==
    IF contains_key(m, p.key) THEN [m EXCEPT ![index_of(m, p.key)] = p] ELSE Append(m, p)

\* IndexMap::swap_remove: the last entry takes the place of the removed one.
swap_remove(m, k) ==
    LET i == index_of(m, k)
        n == Len(m)
    IN  IF i = 0 THEN m
        ELSE IF i = n THEN SubSeq(m, 1, n - 1)
        ELSE [SubSeq(m, 1, n - 1) EXCEPT ![i] = m[n]]

\* IndexMap's PartialEq compares the entries, not their order.
MapEq(m1, m2) == Range(m1) = Range(m2)

RECURSIVE extend(_, _)
extend(m, list) ==
    IF list = <<>> THEN m ELSE extend(insert(m, Head(list)), Tail(list))

\* A plausible slip: of the parameters that share a key the first is kept.
RECURSIVE new_first_wins(_)
new_first_wins(parameters) ==
    IF parameters = <<>> THEN <<>>
    ELSE LET init == new_first_wins(SubSeq(parameters, 1, Len(parameters) - 1))
             last == parameters[Len(parameters)]
         IN  IF contains_key(init, last.key) THEN init ELSE Append(init, last)

\* Parameters::new collects the (key, parameter) pairs into the IndexMap,
\* which inserts them one after the other.
new(parameters) == extend(<<>>, parameters)

\* A plausible slip: update written with insert, which also adds new keys.
RECURSIVE update_adds(_, _)
update_adds(self, other) ==
    IF other = <<>> THEN self ELSE update_adds(insert(self, Head(other)), Tail(other))

RECURSIVE update(_, _)
update(self, other) ==
    IF other = <<>> THEN self
    ELSE LET p == Head(other)
             i == index_of(self, p.key)
         IN  update(IF i # 0 THEN [self EXCEPT ![i] = p] ELSE self, Tail(other))

updated(self, other) == update(self, other)

\* A plausible slip: merge that keeps the receiver's entry on a shared key.
RECURSIVE merge_keeps_own(_, _)
merge_keeps_own(self, other) ==
    IF other = <<>> THEN self
    ELSE merge_keeps_own(IF contains_key(self, Head(other).key) THEN self
                         ELSE Append(self, Head(other)), Tail(other))

merge(self, other) == extend(self, other)

merged(self, other) == extend(self, other)

RECURSIVE apply_defaults(_, _)
apply_defaults(self, defaults) ==
    IF defaults = <<>> THEN self
    ELSE LET d == Head(defaults)
             i == index_of(self, d.key)
         IN  apply_defaults(
                 IF d.variant = "WithValue" /\ i # 0
                 THEN [self EXCEPT ![i] = set_default_value(self[i], d.value)]
                 ELSE self,
                 Tail(defaults))

with_defaults(self, defaults) == apply_defaults(self, defaults)

\* A plausible slip: subtraction that removes a key only when the entries agree.
RECURSIVE sub_equal_entries(_, _)
sub_equal_entries(self, rhs) ==
    IF rhs = <<>> THEN self
    ELSE sub_equal_entries(IF Head(rhs) \in Range(self) THEN swap_remove(self, Head(rhs).key)
                           ELSE self, Tail(rhs))

\* A plausible slip: only the first key of rhs is removed.
sub_first_key(self, rhs) ==
    IF rhs = <<>> THEN self ELSE swap_remove(self, Head(rhs).key)

RECURSIVE sub(_, _)
sub(self, rhs) ==
    IF rhs = <<>> THEN self ELSE sub(swap_remove(self, Head(rhs).key), Tail(rhs))

\* A plausible slip: loose equality that lets a PreviousValue on either side
\* stand for any value.
loosely_equal_either_side(self, other) ==
    IF Len(self) # Len(other) THEN FALSE
    ELSE IF keys(self) # keys(other) THEN FALSE
    ELSE \A i \in 1..Len(self) :
            LET parameter == self[i]
                other_parameter == get(other, parameter.key)
            IN  \/ is_previous_value(other_parameter)
                \/ is_previous_value(parameter)
                \/ parameter = other_parameter

\* pub fn loosely_equal(&self, other) -> bool; the two sorted key iterators
\* are equal iff the key sets are, the keys of a map being distinct.
loosely_equal(self, other) ==
    IF Len(self) # Len(other) THEN FALSE
    ELSE IF keys(self) # keys(other) THEN FALSE
    ELSE \A i \in 1..Len(self) :
            LET parameter == self[i]
                other_parameter == get(other, parameter.key)
            IN  is_previous_value(other_parameter) \/ parameter = other_parameter

\* struct ParametersDifference: four Vecs, unequal holding pairs.
ParametersDifference(left, equal, unequal, right) ==
    [left |-> left, equal |-> equal, unequal |-> unequal, right |-> right]

NoDifference == ParametersDifference(<<>>, <<>>, <<>>, <<>>)

\* A plausible slip: right is filled with every parameter of other.
loose_difference_right_unfiltered(self, other) ==
    LET left == SelectSeq(self, LAMBDA p : ~contains_key(other, p.key))
        both == SelectSeq(self, LAMBDA p : contains_key(other, p.key))
        are_equal(p) == is_previous_value(get(other, p.key)) \/ p = get(other, p.key)
        same == SelectSeq(both, LAMBDA p : are_equal(p))
        differ == SelectSeq(both, LAMBDA p : ~are_equal(p))
        equal == [i \in 1..Len(same) |->
                     IF same[i].variant = "WithValue" THEN same[i]
                     ELSE get(other, same[i].key)]
        unequal == [i \in 1..Len(differ) |-> <<differ[i], get(other, differ[i].key)>>]
        right == other
    IN  IF Len(left) = 0 /\ Len(unequal) = 0 /\ Len(right) = 0
        THEN None(NoDifference)
        ELSE Some(ParametersDifference(left, equal, unequal, right))

\* A plausible slip: the equal bucket always takes the parameter of other.
loose_difference_equal_from_other(self, other) ==
    LET left == SelectSeq(self, LAMBDA p : ~contains_key(other, p.key))
        both == SelectSeq(self, LAMBDA p : contains_key(other, p.key))
        are_equal(p) == is_previous_value(get(other, p.key)) \/ p = get(other, p.key)
        same == SelectSeq(both, LAMBDA p : are_equal(p))
        differ == SelectSeq(both, LAMBDA p : ~are_equal(p))
        equal == [i \in 1..Len(same) |-> get(other, same[i].key)]
        unequal == [i \in 1..Len(differ) |-> <<differ[i], get(other, differ[i].key)>>]
        right == SelectSeq(other, LAMBDA p : ~contains_key(self, p.key))
    IN  IF Len(left) = 0 /\ Len(unequal) = 0 /\ Len(right) = 0
        THEN None(NoDifference)
        ELSE Some(ParametersDifference(left, equal, unequal, right))

\* A plausible slip: the parameters only other has do not count as a
\* difference.
loose_difference_ignores_right(self, other) ==
    LET left == SelectSeq(self, LAMBDA p : ~contains_key(other, p.key))
        both == SelectSeq(self, LAMBDA p : contains_key(other, p.key))
        are_equal(p) == is_previous_value(get(other, p.key)) \/ p = get(other, p.key)
        same == SelectSeq(both, LAMBDA p : are_equal(p))
        differ == SelectSeq(both, LAMBDA p : ~are_equal(p))
        equal == [i \in 1..Len(same) |->
                     IF same[i].variant = "WithValue" THEN same[i]
                     ELSE get(other, same[i].key)]
        unequal == [i \in 1..Len(differ) |-> <<differ[i], get(other, differ[i].key)>>]
        right == SelectSeq(other, LAMBDA p : ~contains_key(self, p.key))
    IN  IF Len(left) = 0 /\ Len(unequal) = 0
        THEN None(NoDifference)
        ELSE Some(ParametersDifference(left, equal, unequal, right))

\* pub fn loose_difference(&self, other) -> Option<ParametersDifference>.
\* The second pass walks self once: a parameter that is in other goes to
\* equal when the two are loosely equal (the one of self if it has a value,
\* else the one of other) and to unequal, with the one of other, when not.
loose_difference(self, other) ==
    LET left == SelectSeq(self, LAMBDA p : ~contains_key(other, p.key))
        both == SelectSeq(self, LAMBDA p : contains_key(other, p.key))
        are_equal(p) == is_previous_value(get(other, p.key)) \/ p = get(other, p.key)
        same == SelectSeq(both, LAMBDA p : are_equal(p))
        differ == SelectSeq(both, LAMBDA p : ~are_equal(p))
        equal == [i \in 1..Len(same) |->
                     IF same[i].variant = "WithValue" THEN same[i]
                     ELSE get(other, same[i].key)]
        unequal == [i \in 1..Len(differ) |-> <<differ[i], get(other, differ[i].key)>>]
        right == SelectSeq(other, LAMBDA p : ~contains_key(self, p.key))
    IN  IF Len(left) = 0 /\ Len(unequal) = 0 /\ Len(right) = 0
        THEN None(NoDifference)
        ELSE Some(ParametersDifference(left, equal, unequal, right))

\* The collections drawn as inputs: every IndexMap of at most MaxLen entries.
ParameterSets ==
    {m \in UNION {[1..n -> Parameter] : n \in 0..MaxLen} : UniqueKeys(m)}

\* ------------------------------------------------------------------------
\* struct DeploymentMetadata, struct DeploymentMetadataGit
\* ------------------------------------------------------------------------
Users == {"alice", "bob"}

\* Commit strings: 1..NumCommits are hashes of commits the repository has,
\* UnknownCommit is a well-formed hash the repository has no object for, and
\* MalformedCommit is a string that is no hash (Oid::from_str rejects it).
MalformedCommit == 0

UnknownCommit == NumCommits + 1

Odb == 1..NumCommits

CommitStrings == {MalformedCommit} \cup Odb \cup {UnknownCommit}

DeploymentMetadataGit(commit, ref, dirty) == [commit |-> commit, ref |-> ref, dirty |-> dirty]

DeploymentMetadata(user, when, git) == [user |-> user, when |-> when, git |-> git]

\* ------------------------------------------------------------------------
\* The repository git_discover_path leads to (git2::Repository)
\* ------------------------------------------------------------------------
\* parents[c] are the parent commits of c; commits are numbered so that a
\* parent has a smaller number than its children.
CommitGraphs == {g \in [Odb -> SUBSET Odb] : \A c \in Odb : \A q \in g[c] : q < c}

\* Outcome of repo.head() followed by .target().
HeadOk(c) == [kind |-> "ok", target |-> c]

HeadError == [kind |-> "error", target |-> MalformedCommit]

HeadSymbolic == [kind |-> "symbolic", target |-> MalformedCommit]

Repositories ==
    [discoverable : BOOLEAN,
     parents : CommitGraphs,
     head : {HeadOk(c) : c \in Odb} \cup {HeadError, HeadSymbolic}]

RECURSIVE Ancestors(_, _)
Ancestors(g, c) == {c} \cup UNION {Ancestors(g, q) : q \in g[c]}

\* Result<_, Error>
Ok(v) == [tag |-> "Ok", val |-> v, code |-> "-", class |-> "-"]

Err(code, class) == [tag |-> "Err", val |-> FALSE, code |-> code, class |-> class]

OkOid(c) == [tag |-> "Ok", val |-> c, code |-> "-", class |-> "-"]

\* The result of a call that has not returned.
NotReturned == [tag |-> "NotReturned", val |-> FALSE, code |-> "-", class |-> "-"]

\* The merge-base query that was not made.
NotQueried == [tag |-> "NotQueried", val |-> MalformedCommit, code |-> "-", class |-> "-"]

\* repo.merge_base(one, two): a best common ancestor of the two commits.  A
\* commit the object database does not have gives an error of code
\* GenericError and class Odb; two commits without a common ancestor give
\* NotFound.
merge_base(g, one, two) ==
    IF one \notin Odb \/ two \notin Odb
    THEN {Err("GenericError", "Odb")}
    ELSE LET common == Ancestors(g, one) \cap Ancestors(g, two)
             best == {c \in common : \A d \in common \ {c} : c \notin Ancestors(g, d)}
         IN  IF best = {} THEN {Err("NotFound", "Merge")} ELSE {OkOid(c) : c \in best}

\* ------------------------------------------------------------------------
\* fn verify_changes_compatible (src/bin/util.rs)
\* ------------------------------------------------------------------------
\* A plausible slip: any merge-base counts, also one that is not the
\* previous commit.
common_ancestor_any_base(previous, current, repository, mb) ==
    IF previous.git.commit = current.git.commit THEN Ok(TRUE)
    ELSE IF ~repository.discoverable THEN Err("NotFound", "Repository")
    ELSE IF previous.git.commit = MalformedCommit THEN Err("GenericError", "Invalid")
    ELSE IF repository.head.kind = "error" THEN Err("UnbornBranch", "Reference")
    ELSE IF repository.head.kind = "symbolic" THEN Err("GitError", "NoTarget")
    ELSE IF mb.tag = "Ok" THEN Ok(TRUE)
    ELSE IF mb.code = "GenericError" /\ mb.class = "Odb" THEN Ok(FALSE)
    ELSE mb

\* A plausible slip: the missing-object error is propagated like any other.
common_ancestor_propagates_odb(previous, current, repository, mb) ==
    IF previous.git.commit = current.git.commit THEN Ok(TRUE)
    ELSE IF ~repository.discoverable THEN Err("NotFound", "Repository")
    ELSE IF previous.git.commit = MalformedCommit THEN Err("GenericError", "Invalid")
    ELSE IF repository.head.kind = "error" THEN Err("UnbornBranch", "Reference")
    ELSE IF repository.head.kind = "symbolic" THEN Err("GitError", "NoTarget")
    ELSE IF mb.tag = "Ok" THEN Ok(previous.git.commit = mb.val)
    ELSE mb

\* A plausible slip: every failure of the merge-base query counts as "not an
\* ancestor".
common_ancestor_swallows_errors(previous, current, repository, mb) ==
    IF previous.git.commit = current.git.commit THEN Ok(TRUE)
    ELSE IF ~repository.discoverable THEN Err("NotFound", "Repository")
    ELSE IF previous.git.commit = MalformedCommit THEN Err("GenericError", "Invalid")
    ELSE IF repository.head.kind = "error" THEN Err("UnbornBranch", "Reference")
    ELSE IF repository.head.kind = "symbolic" THEN Err("GitError", "NoTarget")
    ELSE IF mb.tag = "Ok" THEN Ok(previous.git.commit = mb.val)
    ELSE Ok(FALSE)

\* let previous_commit_is_common_ancestor = ...; an Err is the early return
\* of the ? operators and of the last match arm.  mb is what repo.merge_base
\* answers when it is asked.
previous_commit_is_common_ancestor(previous, current, repository, mb) ==
    IF previous.git.commit = current.git.commit THEN Ok(TRUE)
    ELSE IF ~repository.discoverable THEN Err("NotFound", "Repository")
    ELSE IF previous.git.commit = MalformedCommit THEN Err("GenericError", "Invalid")
    ELSE IF repository.head.kind = "error" THEN Err("UnbornBranch", "Reference")
    ELSE IF repository.head.kind = "symbolic" THEN Err("GitError", "NoTarget")
    ELSE IF mb.tag = "Ok" THEN Ok(previous.git.commit = mb.val)
    ELSE IF mb.code = "GenericError" /\ mb.class = "Odb" THEN Ok(FALSE)
    ELSE mb

\* Whether the call gets as far as repo.merge_base.
asks_merge_base(previous, current, repository) ==
    /\ previous.git.commit # current.git.commit
    /\ repository.discoverable
    /\ previous.git.commit # MalformedCommit
    /\ repository.head.kind = "ok"

\* The repository queries the call makes, in order.
repository_queries(previous, current, repository) ==
    IF previous.git.commit = current.git.commit THEN <<>>
    ELSE IF ~repository.discoverable THEN <<"discover">>
    ELSE IF previous.git.commit = MalformedCommit THEN <<"discover">>
    ELSE IF repository.head.kind # "ok" THEN <<"discover", "head">>
    ELSE <<"discover", "head", "merge_base">>

\* A plausible slip: a dirty previous deployment is trusted when either the
\* user is the same or the commit is an ancestor.
verify_dirty_either(previous, current, repository, mb) ==
    LET ancestor == previous_commit_is_common_ancestor(previous, current, repository, mb)
    IN  IF ancestor.tag = "Err" THEN ancestor
        ELSE IF previous.git.dirty
        THEN Ok(previous.user = current.user \/ ancestor.val)
        ELSE Ok(ancestor.val)

verify_changes_compatible(previous, current, repository, mb) ==
    LET ancestor == previous_commit_is_common_ancestor(previous, current, repository, mb)
    IN  IF ancestor.tag = "Err" THEN ancestor
        ELSE IF previous.git.dirty
        THEN Ok(previous.user = current.user /\ ancestor.val)
        ELSE Ok(ancestor.val)

NoMetadata == DeploymentMetadata("", "", DeploymentMetadataGit(MalformedCommit, "", FALSE))

NoRepository == [discoverable |-> FALSE, parents |-> [c \in Odb |-> {}], head |-> HeadError]

\* ------------------------------------------------------------------------
\* Deployment metadata as a parameter value (src/bin/util.rs)
\* ------------------------------------------------------------------------
\* global_opt.deployment_metadata_parameter, at its default.
MetadataKey == "DeploymentMetadata"

\* impl fmt::Display for DeploymentMetadata: the JSON text of the record.
to_string(m) ==
    "{user:" \o m.user \o ",when:" \o m.when \o ",git:{commit:" \o ToString(m.git.commit)
        \o ",ref:" \o m.git.ref \o ",dirty:" \o ToString(m.git.dirty) \o "}}"

\* The records a JSON text of the model can stand for.
MetadataRecords ==
    {DeploymentMetadata(u, w, DeploymentMetadataGit(c, r, d)) :
        u \in Users \cup {"unknown", ""}, w \in {"t0", "t1", ""},
        c \in CommitStrings, r \in {"main", ""}, d \in BOOLEAN}

\* serde_json::from_str::<DeploymentMetadata>: the record the text encodes,
\* if it encodes one.
from_str_metadata(value) ==
    LET parsed == {m \in MetadataRecords : to_string(m) = value}
    IN  IF parsed = {} THEN None(NoMetadata) ELSE Some(CHOOSE m \in parsed : TRUE)

\* impl TryFrom<Parameter> for DeploymentMetadata, followed by .ok()
try_from(parameter) ==
    IF parameter.variant = "WithValue" THEN from_str_metadata(parameter.value)
    ELSE None(NoMetadata)

\* The working tree and git configuration generate_deployment_metadata reads.
\*   config_ok      Config::open_default() succeeds
\*   email          user.email of the default configuration, NoValue when
\*                  get_string fails
\*   ref            the shorthand of HEAD, NoValue when it has none
\*   statuses_ok    repo.statuses() succeeds
\*   dirty          the status list is not empty
\*   repo_config_ok repo.config() succeeds
\*   repo_email     user.email of the repository's configuration, NoValue
\*                  when get_string fails
Worktree(config_ok, email, ref, statuses_ok, dirty, repo_config_ok, repo_email) ==
    [config_ok |-> config_ok, email |-> email, ref |-> ref,
     statuses_ok |-> statuses_ok, dirty |-> dirty,
     repo_config_ok |-> repo_config_ok, repo_email |-> repo_email]

\* Result<DeploymentMetadata, Error>
OkMetadata(m) == [tag |-> "Ok", val |-> m, code |-> "-", class |-> "-"]

ErrMetadata(code, class) == [tag |-> "Err", val |-> NoMetadata, code |-> code, class |-> class]

\* The time Local::now() reports.
Now == "t1"

\* .get_string("user.email").unwrap_or_else(|_| "unknown".to_owned())
user_email(email) == IF email = NoValue THEN "unknown" ELSE email

\* A plausible slip: the record always starts from the default, the previous
\* parameter is not looked at.
generate_from_default(previous_metadata_parameter, has_path, tree, repository) ==
    IF ~tree.config_ok THEN ErrMetadata("GitError", "Config")
    ELSE IF ~has_path
    THEN OkMetadata(DeploymentMetadata(user_email(tree.email), Now, NoMetadata.git))
    ELSE IF ~repository.discoverable THEN ErrMetadata("GitError", "Repository")
    ELSE IF repository.head.kind = "error" THEN ErrMetadata("GitError", "Reference")
    ELSE IF tree.ref = NoValue THEN ErrMetadata("GitError", "NoRef")
    ELSE IF repository.head.kind = "symbolic" THEN ErrMetadata("GitError", "NoTarget")
    ELSE IF ~tree.statuses_ok THEN ErrMetadata("GitError", "Status")
    ELSE IF ~tree.repo_config_ok THEN ErrMetadata("GitError", "Config")
    ELSE OkMetadata(DeploymentMetadata(user_email(tree.repo_email), Now,
             DeploymentMetadataGit(repository.head.target, tree.ref, tree.dirty)))

\* A plausible slip: a failed status scan is taken for a clean working tree.
generate_ignores_status_failure(previous_metadata_parameter, has_path, tree, repository) ==
    LET base == IF previous_metadata_parameter.some
                THEN try_from(previous_metadata_parameter.v).v
                ELSE NoMetadata
    IN  IF ~tree.config_ok THEN ErrMetadata("GitError", "Config")
        ELSE IF ~has_path
        THEN OkMetadata(DeploymentMetadata(user_email(tree.email), Now, base.git))
        ELSE IF ~repository.discoverable THEN ErrMetadata("GitError", "Repository")
        ELSE IF repository.head.kind = "error" THEN ErrMetadata("GitError", "Reference")
        ELSE IF tree.ref = NoValue THEN ErrMetadata("GitError", "NoRef")
        ELSE IF repository.head.kind = "symbolic" THEN ErrMetadata("GitError", "NoTarget")
        ELSE IF ~tree.repo_config_ok THEN ErrMetadata("GitError", "Config")
        ELSE OkMetadata(DeploymentMetadata(user_email(tree.repo_email), Now,
                 DeploymentMetadataGit(repository.head.target, tree.ref,
                                       tree.statuses_ok /\ tree.dirty)))

\* fn generate_deployment_metadata(previous_metadata_parameter, git_discover_path).
\* The record starts as the previous one, or as the default when there is
\* none that parses (try_from(..).ok() and unwrap_or_default); user and when
\* are set; with a path the repository is asked, in this order, for HEAD,
\* its shorthand, its target, the statuses and the configuration.
generate_deployment_metadata(previous_metadata_parameter, has_path, tree, repository) ==
    LET base == IF previous_metadata_parameter.some
                THEN try_from(previous_metadata_parameter.v).v
                ELSE NoMetadata
    IN  IF ~tree.config_ok THEN ErrMetadata("GitError", "Config")
        ELSE IF ~has_path
        THEN OkMetadata(DeploymentMetadata(user_email(tree.email), Now, base.git))
        ELSE IF ~repository.discoverable THEN ErrMetadata("GitError", "Repository")
        ELSE IF repository.head.kind = "error" THEN ErrMetadata("GitError", "Reference")
        ELSE IF tree.ref = NoValue THEN ErrMetadata("GitError", "NoRef")
        ELSE IF repository.head.kind = "symbolic" THEN ErrMetadata("GitError", "NoTarget")
        ELSE IF ~tree.statuses_ok THEN ErrMetadata("GitError", "Status")
        ELSE IF ~tree.repo_config_ok THEN ErrMetadata("GitError", "Config")
        ELSE OkMetadata(DeploymentMetadata(user_email(tree.repo_email), Now,
                 DeploymentMetadataGit(repository.head.target, tree.ref, tree.dirty)))

\* ------------------------------------------------------------------------
\* Helpers of the commands (src/bin/util.rs, src/template.rs, src/stack.rs)
\* ------------------------------------------------------------------------
\* The keys in the order str::cmp gives them.
KeyOrder == <<"DeploymentMetadata", "X", "Y", "Z">>

\* IndexMap::keys, in iteration order.
keys_iter(m) == [i \in 1..Len(m) |-> m[i].key]

\* Itertools::sorted on a key iterator; keys of a map are distinct.
sorted(ks) == SelectSeq(KeyOrder, LAMBDA k : k \in Range(ks))

\* A regular expression, by the keys it matches; it may fail to compile.
Pattern(valid, matches) == [valid |-> valid, matches |-> matches]

\* RegexSet::is_match
is_match(patterns, k) == \E i \in 1..Len(patterns) : k \in patterns[i].matches

\* Result<Parameters, Error>
OkParameters(m) == [tag |-> "Ok", val |-> m, code |-> "-", class |-> "-"]

ErrParameters(code, class) == [tag |-> "Err", val |-> <<>>, code |-> code, class |-> class]

\* A plausible slip: a parameter an include pattern matches is kept even
\* when an exclude pattern matches it too.
apply_includes_over_excludes(parameters, excludes, includes) ==
    LET compiles(ps) == \A i \in 1..Len(ps) : ps[i].valid
        kept == new(SelectSeq(parameters,
                    LAMBDA q : IF includes # <<>> THEN is_match(includes, q.key)
                               ELSE ~is_match(excludes, q.key)))
    IN  IF excludes # <<>> /\ ~compiles(excludes) THEN ErrParameters("RegexParseError", "excludes")
        ELSE IF includes # <<>> /\ ~compiles(includes) THEN ErrParameters("RegexParseError", "includes")
        ELSE OkParameters(kept)

\* fn apply_excludes_includes(parameters, excludes, includes)
apply_excludes_includes(parameters, excludes, includes) ==
    LET compiles(ps) == \A i \in 1..Len(ps) : ps[i].valid
        excluded == IF excludes # <<>>
                    THEN new(SelectSeq(parameters, LAMBDA q : ~is_match(excludes, q.key)))
                    ELSE parameters
        included == IF includes # <<>>
                    THEN new(SelectSeq(excluded, LAMBDA q : is_match(includes, q.key)))
                    ELSE excluded
    IN  IF excludes # <<>> /\ ~compiles(excludes) THEN ErrParameters("RegexParseError", "excludes")
        ELSE IF includes # <<>> /\ ~compiles(includes) THEN ErrParameters("RegexParseError", "includes")
        ELSE OkParameters(included)

\* util::apply_defaults(parameters, &opt.parameter_defaults_path): the
\* defaults of the file are applied when a path is given and the file exists.
util_apply_defaults(parameters, defaults_path) ==
    IF defaults_path.some THEN OkParameters(with_defaults(parameters, defaults_path.v))
    ELSE OkParameters(parameters)

\* A plausible slip: the parameters are taken over with their values.
get_parameters_with_values(parameters) == new(parameters)

\* A plausible slip: the parameters that carry a value are left out.
get_parameters_previous_only(parameters) ==
    new(SelectSeq(parameters, LAMBDA p : is_previous_value(p)))

\* Template::get_parameters_as_previous_value, Stack::get_parameters_as_previous_value
get_parameters_as_previous_value(parameters) ==
    new([i \in 1..Len(parameters) |-> into_previous_value(parameters[i])])

\* A plausible slip: validation that only asks for the template's keys to be there.
validate_parameters_subset(template_declared, parameters) ==
    keys(template_declared) \subseteq keys(parameters)

\* Template::validate_parameters
validate_parameters(template_declared, parameters) ==
    sorted(keys_iter(template_declared)) = sorted(keys_iter(parameters))

\* A plausible slip: the check only asks that every new parameter is provided.
completeness_missing_only(new_params, provided_params) ==
    keys(new_params) \subseteq keys(provided_params)

\* update_stack: new_parameters.keys().sorted().eq(provided_parameters.keys().sorted())
completeness(new_params, provided_params) ==
    sorted(keys_iter(new_params)) = sorted(keys_iter(provided_params))

\* update_stack: what the completeness check does with its finding.
completeness_gate(new_params, provided_params, force_create) ==
    IF completeness(new_params, provided_params) THEN "pass"
    ELSE IF force_create THEN "warn"
    ELSE "fail"

\* A plausible slip: the force flag is not consulted.
compatibility_gate_unforced(changes_compatible, force_create) ==
    IF changes_compatible THEN "pass" ELSE "fail"

\* A plausible slip: the test of the verdict is inverted.
compatibility_gate_inverted(changes_compatible, force_create) ==
    IF ~changes_compatible THEN "pass"
    ELSE IF force_create THEN "warn"
    ELSE "fail"

\* update_stack: what is done with the verdict of verify_changes_compatible.
compatibility_gate(changes_compatible, force_create) ==
    IF changes_compatible THEN "pass"
    ELSE IF force_create THEN "warn"
    ELSE "fail"

\* A plausible slip: the template is uploaded whether or not a bucket is set.
template_destination_always_s3(s3_upload) == "upload_to_s3"

\* Template::create_change_set: the template goes to S3 (template_url) when
\* the S3 configuration is there, and into the request (template_body) otherwise.
template_destination(s3_upload) == IF s3_upload THEN "upload_to_s3" ELSE "submit"

\* ------------------------------------------------------------------------
\* The inputs of the commands (src/bin/command/*.rs)
\* ------------------------------------------------------------------------
\* The keys of S in key order.
OrderedKeys(S) == SelectSeq(KeyOrder, LAMBDA k : k \in S)

\* The collections of at most MaxLen parameters whose keys are in the domain
\* of V, where the parameter of key k holds a value of V[k], or is
\* PreviousValue for NoValue.
Collections(V) ==
    UNION {{[i \in 1..Cardinality(S) |->
                IF f[OrderedKeys(S)[i]] = NoValue
                THEN PreviousValue(OrderedKeys(S)[i])
                ELSE WithValue(OrderedKeys(S)[i], f[OrderedKeys(S)[i]])] :
            f \in {g \in [S -> UNION {V[k] : k \in S}] : \A k \in S : g[k] \in V[k]}} :
           S \in {T \in SUBSET DOMAIN V : Cardinality(T) <= MaxLen}}

\* Template::new: the declared parameters, WithValue when a Default is given.
Templates ==
    Collections([k \in {"X", "Y", MetadataKey} |-> IF k = "X" THEN {NoValue, "a"} ELSE {NoValue}])

\* --parameters Key=Value ...: FromStr only builds WithValue.
CliParameters == Collections([k \in {"X", "Y", "Z", MetadataKey} |-> {"b"}])

\* The entries of a JSON parameter file.
FileParameters == Collections([k \in {"Y", "Z"} |-> {NoValue, "b"}])

\* --parameter-path: not given, a file that cannot be opened, or a file.
NoPath == [given |-> FALSE, readable |-> FALSE, contents |-> <<>>]

MissingFile == [given |-> TRUE, readable |-> FALSE, contents |-> <<>>]

File(contents) == [given |-> TRUE, readable |-> TRUE, contents |-> contents]

\* --exclude / --include pattern lists.
Filters ==
    {[excludes |-> <<>>, includes |-> <<>>],
     [excludes |-> <<Pattern(TRUE, {"Z"})>>, includes |-> <<>>],
     [excludes |-> <<>>, includes |-> <<Pattern(TRUE, {"Y"})>>],
     [excludes |-> <<Pattern(FALSE, {})>>, includes |-> <<>>]}

\* struct Opt of update-deployed-template with the global options it reads.
\* structopt rejects --parameters together with --parameter-path, --exclude
\* or --include; a defaults file is drawn only next to --parameters.
UpdateOpts ==
    {o \in [parameters : CliParameters,
            parameter_path : {NoPath, MissingFile} \cup {File(c) : c \in FileParameters},
            filters : Filters,
            parameter_defaults_path : {None(<<>>), Some(<<WithValue("Y", "a")>>)},
            only_new_parameters : BOOLEAN,
            force_create : BOOLEAN,
            dont_update_deployment_metadata : BOOLEAN,
            s3_bucket_name : BOOLEAN] :
        /\ o.parameter_path.given => o.parameters = <<>>
        /\ o.parameter_defaults_path.some => ~o.parameter_path.given
        /\ ~o.parameter_path.given => o.filters = [excludes |-> <<>>, includes |-> <<>>]
        /\ ~o.parameter_path.readable => o.filters = [excludes |-> <<>>, includes |-> <<>>]}

\* struct Opt of create-stack with the global options it reads.
CreateOpts ==
    [parameters : CliParameters,
     parameter_path : {NoPath, MissingFile, File(<<WithValue("Y", "b")>>),
                       File(<<WithValue("X", "a"), PreviousValue("Y")>>)},
     filters : {[excludes |-> <<>>, includes |-> <<>>]},
     parameter_defaults_path : {None(<<>>)},
     only_new_parameters : {FALSE},
     force_create : BOOLEAN,
     dont_update_deployment_metadata : BOOLEAN,
     s3_bucket_name : BOOLEAN]

\* The entries of a JSON parameter file handed to override-parameters.
OverrideFileParameters ==
    Collections([k \in {"X", "Z", MetadataKey} |-> IF k = "X" THEN {NoValue, "a"} ELSE {"a"}])

\* --exclude / --include pattern lists handed to override-parameters.
OverrideFilters ==
    {[excludes |-> <<>>, includes |-> <<>>],
     [excludes |-> <<Pattern(TRUE, {"X"})>>, includes |-> <<>>],
     [excludes |-> <<>>, includes |-> <<Pattern(TRUE, {"Z"})>>],
     [excludes |-> <<>>, includes |-> <<Pattern(FALSE, {})>>]}

\* struct Opt of override-parameters with the global options it reads;
\* parameters stands for parameter_overrides.  --exclude and --include
\* require --parameter-path, which may be given next to the overrides.
OverrideOpts ==
    {o \in [parameters : CliParameters,
            parameter_path : {NoPath, MissingFile} \cup {File(c) : c \in OverrideFileParameters},
            filters : OverrideFilters,
            parameter_defaults_path : {None(<<>>)},
            only_new_parameters : {FALSE},
            force_create : {FALSE},
            dont_update_deployment_metadata : BOOLEAN,
            s3_bucket_name : {FALSE}] :
        ~o.parameter_path.readable => o.filters = [excludes |-> <<>>, includes |-> <<>>]}

NoOpt ==
    [parameters |-> <<>>, parameter_path |-> NoPath,
     filters |-> [excludes |-> <<>>, includes |-> <<>>],
     parameter_defaults_path |-> None(<<>>), only_new_parameters |-> FALSE,
     force_create |-> FALSE, dont_update_deployment_metadata |-> FALSE,
     s3_bucket_name |-> FALSE]

\* cfn.describe_stacks as Stack::get_parameters reads it: the parameters of
\* the stack, InvalidStack when there is no such stack, or a failed call.
DescribeStacksResponses ==
    {OkParameters(m) : m \in Collections([k \in {"X", MetadataKey} |-> {"a"}])}
        \cup {ErrParameters("InvalidStack", "describe_stacks"),
              ErrParameters("AwsError", "describe_stacks")}

\* The values the stack can hold for its metadata parameter: a text that is
\* no metadata record, or the record of an earlier deployment.
StackMetadataValues ==
    {"a", to_string(DeploymentMetadata("alice", "t0",
                        DeploymentMetadataGit(MalformedCommit, "main", FALSE)))}
        \cup {to_string(DeploymentMetadata(u, "t0", DeploymentMetadataGit(c, "main", d))) :
                  u \in Users, c \in {1, 3}, d \in BOOLEAN}

\* Stack::get_parameter(cfn, key) for a stack whose keys are stack_keys.
GetParameterResponses(stack_keys) ==
    IF MetadataKey \in stack_keys
    THEN {Some(WithValue(MetadataKey, v)) : v \in StackMetadataValues}
    ELSE {None(PreviousValue(MetadataKey))}

\* The repository the template path lies in, when there is one: commit 1 is
\* the root and every other commit is a child of it; HEAD is commit 2.  So
\* commit 1 is a strict ancestor of HEAD and commit 3 has diverged from it.
WorkRepository ==
    [discoverable |-> TRUE,
     parents |-> [c \in Odb |-> IF c = 1 THEN {} ELSE {1}],
     head |-> HeadOk(2)]

PipelineRepositories == {NoRepository, WorkRepository}

WorkTree == Worktree(TRUE, "alice", "main", TRUE, FALSE, TRUE, "alice")

\* Result<AwsxOutput, Error> of a command, Running while it is executing.
Running == [tag |-> "Running", kind |-> "-", site |-> "-"]

Success == [tag |-> "Ok", kind |-> "-", site |-> "-"]

Error(kind, site) == [tag |-> "Err", kind |-> kind, site |-> site]

\* Ok(AwsxOutput { successful: false, .. }) of override_parameters.
NoChangeSet == [tag |-> "Ok", kind |-> "not_successful", site |-> "-"]

\* ------------------------------------------------------------------------
\* State
\* ------------------------------------------------------------------------
VARIABLES
    A,       \* the receiver as it was before the operation
    B,       \* the argument (other / defaults / rhs)
    self,    \* the receiver
    ret,     \* the value the operation returned
    op,      \* the operation applied, "init" before
    previous_metadata,   \* the record read from the deployed stack
    current_metadata,    \* the record generated from the working tree
    repo,                \* the repository at git_discover_path
    merge_base_result,   \* what repo.merge_base answered, NotQueried before
    queries,             \* the repository queries verify_changes_compatible made
    compatible,          \* the Result verify_changes_compatible returned
    cmd,                 \* the command that runs: "create_stack", "update_stack"
    pc,                  \* the statement the command is at
    opt,                 \* the command-line options
    template,            \* the parameters the template file declares
    deployed,            \* Option: the parameters of the stack as describe_stacks gave them
    template_parameters, \* local of create_stack / update_stack
    stack_parameters,    \* local of update_stack
    new_parameters,      \* local of update_stack
    provided_parameters, \* local of update_stack
    warnings,            \* the warnings printed to stderr
    remote,              \* the calls that changed S3 or CloudFormation, in order
    submitted,           \* Option: the parameters handed to cfn.create_change_set
    outcome,             \* what the command returned
    metadata_parameter,  \* Option: the previous metadata parameter handed in
    discover_path,       \* whether a git_discover_path is handed in
    worktree,            \* the working tree and configuration git reads
    generated,           \* the Result generate_deployment_metadata returned
    excludes,            \* the exclude patterns handed to apply_excludes_includes
    includes,            \* the include patterns handed to apply_excludes_includes
    remaining,           \* the keys of A that no operation applied so far removed
    text                 \* the string handed to Parameter::from_str

algebraVars == <<A, B, self, ret, op>>

verifyVars == <<previous_metadata, current_metadata, repo, merge_base_result, queries, compatible>>

localVars == <<template_parameters, stack_parameters, new_parameters, provided_parameters>>

pipelineVars == <<cmd, pc, opt, template, deployed, localVars, warnings, remote, submitted, outcome>>

metadataVars == <<metadata_parameter, discover_path, worktree, generated>>

filterVars == <<excludes, includes>>

orderVars == <<remaining>>

parseVars == <<text>>

vars == <<algebraVars, verifyVars, pipelineVars, metadataVars, filterVars, orderVars, parseVars>>

\* No command is running.
PipelineIdle ==
    /\ cmd = "none"
    /\ pc = "off"
    /\ opt = NoOpt
    /\ template = <<>>
    /\ deployed = None(<<>>)
    /\ template_parameters = <<>>
    /\ stack_parameters = <<>>
    /\ new_parameters = <<>>
    /\ provided_parameters = <<>>
    /\ warnings = {}
    /\ remote = <<>>
    /\ submitted = None(<<>>)
    /\ outcome = Running

\* The Parameters operations are not in use.
AlgebraIdle ==
    /\ A = <<>>
    /\ B = <<>>
    /\ self = <<>>
    /\ ret = Unit
    /\ op = "off"

\* The verifier is not in use.
VerifyIdle ==
    /\ previous_metadata = NoMetadata
    /\ current_metadata = NoMetadata
    /\ repo = NoRepository
    /\ merge_base_result = NotQueried
    /\ queries = <<>>
    /\ compatible = NotReturned

\* The call that has not returned.
NotGenerated == [tag |-> "NotReturned", val |-> NoMetadata, code |-> "-", class |-> "-"]

\* generate_deployment_metadata is not in use on its own.
MetadataIdle ==
    /\ metadata_parameter = None(PreviousValue(MetadataKey))
    /\ discover_path = FALSE
    /\ worktree = WorkTree
    /\ generated = NotGenerated
    /\ excludes = <<>>
    /\ includes = <<>>
    /\ remaining = {}
    /\ text = <<>>

\* ------------------------------------------------------------------------
\* SpecAlgebra
\* ------------------------------------------------------------------------
InitAlgebra ==
    /\ MetadataIdle
    /\ A \in ParameterSets
    /\ B \in ParameterSets
    /\ self = A
    /\ ret = Unit
    /\ op = "init"
    /\ VerifyIdle
    /\ PipelineIdle

\* pub fn update(&mut self, other)
Update ==
    /\ op = "init"
    /\ self' = update(self, B)
    /\ ret' = Unit
    /\ op' = "update"
    /\ UNCHANGED <<A, B, verifyVars, pipelineVars, metadataVars, filterVars, orderVars, parseVars>>

\* pub fn updated(&self, other) -> Parameters
Updated ==
    /\ op = "init"
    /\ ret' = updated(self, B)
    /\ op' = "updated"
    /\ UNCHANGED <<A, B, self, verifyVars, pipelineVars, metadataVars, filterVars, orderVars, parseVars>>

\* pub fn merge(&mut self, other)
Merge ==
    /\ op = "init"
    /\ self' = merge(self, B)
    /\ ret' = Unit
    /\ op' = "merge"
    /\ UNCHANGED <<A, B, verifyVars, pipelineVars, metadataVars, filterVars, orderVars, parseVars>>

\* pub fn merged(&self, other) -> Parameters
Merged ==
    /\ op = "init"
    /\ ret' = merged(self, B)
    /\ op' = "merged"
    /\ UNCHANGED <<A, B, self, verifyVars, pipelineVars, metadataVars, filterVars, orderVars, parseVars>>

\* pub fn apply_defaults(&mut self, defaults)
ApplyDefaults ==
    /\ op = "init"
    /\ self' = apply_defaults(self, B)
    /\ ret' = Unit
    /\ op' = "apply_defaults"
    /\ UNCHANGED <<A, B, verifyVars, pipelineVars, metadataVars, filterVars, orderVars, parseVars>>

\* pub fn with_defaults(&self, defaults) -> Parameters
WithDefaults ==
    /\ op = "init"
    /\ ret' = with_defaults(self, B)
    /\ op' = "with_defaults"
    /\ UNCHANGED <<A, B, self, verifyVars, pipelineVars, metadataVars, filterVars, orderVars, parseVars>>

\* fn sub(mut self, rhs: &Parameters) -> Parameters; the receiver is moved
\* into the call and handed back as the result.
Sub ==
    /\ op = "init"
    /\ ret' = sub(self, B)
    /\ op' = "sub"
    /\ UNCHANGED <<A, B, self, verifyVars, pipelineVars, metadataVars, filterVars, orderVars, parseVars>>

\* pub fn loosely_equal(&self, other) -> bool
LooselyEqual ==
    /\ op = "init"
    /\ ret' = loosely_equal(self, B)
    /\ op' = "loosely_equal"
    /\ UNCHANGED <<A, B, self, verifyVars, pipelineVars, metadataVars, filterVars, orderVars, parseVars>>

\* pub fn loose_difference(&self, other) -> Option<ParametersDifference>
LooseDifference ==
    /\ op = "init"
    /\ ret' = loose_difference(self, B)
    /\ op' = "loose_difference"
    /\ UNCHANGED <<A, B, self, verifyVars, pipelineVars, metadataVars, filterVars, orderVars, parseVars>>

\* self.merged(&other) - &other
MergedSub ==
    /\ op = "init"
    /\ ret' = sub(merged(self, B), B)
    /\ op' = "merged_sub"
    /\ UNCHANGED <<A, B, self, verifyVars, pipelineVars, metadataVars, filterVars, orderVars, parseVars>>

\* Parameters::new(parameters), the Vec holding the parameters of A followed
\* by those of B, so that a key can occur twice.
New ==
    /\ op = "init"
    /\ ret' = new(A \o B)
    /\ op' = "new"
    /\ UNCHANGED <<A, B, self, verifyVars, pipelineVars, metadataVars, filterVars, orderVars, parseVars>>

NextAlgebra ==
    \/ New
    \/ MergedSub
    \/ LooselyEqual
    \/ LooseDifference
    \/ Update
    \/ Updated
    \/ Merge
    \/ Merged
    \/ ApplyDefaults
    \/ WithDefaults
    \/ Sub

SpecAlgebra == InitAlgebra /\ [][NextAlgebra]_vars

\* ------------------------------------------------------------------------
\* SpecOrder: the mutating operations of Parameters applied one after the
\* other to a receiver, each with a drawn argument.
\* ------------------------------------------------------------------------
\* The receivers drawn: every IndexMap over Keys, in every insertion order,
\* that Stack::get_parameters_as_previous_value can build.
OrderReceivers ==
    {m \in UNION {[1..n -> {PreviousValue(k) : k \in Keys}] : n \in 0..Cardinality(Keys)} :
        UniqueKeys(m)}

\* The arguments drawn: the collections of at most one parameter, with one
\* value to give; an operation walks its argument entry by entry, so a longer
\* argument acts as its entries handed in one after the other.
OrderArguments ==
    {<<>>} \cup {<<p>> : p \in {PreviousValue(k) : k \in Keys} \cup {WithValue(k, "a") : k \in Keys}}

InitOrder ==
    /\ A \in OrderReceivers
    /\ B = <<>>
    /\ self = A
    /\ ret = Unit
    /\ op = "init"
    /\ remaining = keys(A)
    /\ text = <<>>
    /\ VerifyIdle
    /\ PipelineIdle
    /\ metadata_parameter = None(PreviousValue(MetadataKey))
    /\ discover_path = FALSE
    /\ worktree = WorkTree
    /\ generated = NotGenerated
    /\ excludes = <<>>
    /\ includes = <<>>

\* self.update(&other)
OrderUpdate ==
    /\ op # "off"
    /\ \E other \in OrderArguments :
          /\ self' = update(self, other)
          /\ B' = other
    /\ op' = "update"
    /\ remaining' = remaining \cap keys(self')
    /\ UNCHANGED <<A, ret, verifyVars, pipelineVars, metadataVars, filterVars, parseVars>>

\* self.merge(other)
OrderMerge ==
    /\ op # "off"
    /\ \E other \in OrderArguments :
          /\ self' = merge(self, other)
          /\ B' = other
    /\ op' = "merge"
    /\ remaining' = remaining \cap keys(self')
    /\ UNCHANGED <<A, ret, verifyVars, pipelineVars, metadataVars, filterVars, parseVars>>

\* self.apply_defaults(defaults)
OrderApplyDefaults ==
    /\ op # "off"
    /\ \E defaults \in OrderArguments :
          /\ self' = apply_defaults(self, defaults)
          /\ B' = defaults
    /\ op' = "apply_defaults"
    /\ remaining' = remaining \cap keys(self')
    /\ UNCHANGED <<A, ret, verifyVars, pipelineVars, metadataVars, filterVars, parseVars>>

\* let self = self - &rhs
OrderSub ==
    /\ op # "off"
    /\ \E rhs \in OrderArguments :
          /\ self' = sub(self, rhs)
          /\ B' = rhs
    /\ op' = "sub"
    /\ remaining' = remaining \cap keys(self')
    /\ UNCHANGED <<A, ret, verifyVars, pipelineVars, metadataVars, filterVars, parseVars>>

NextOrder ==
    \/ OrderUpdate
    \/ OrderMerge
    \/ OrderApplyDefaults
    \/ OrderSub

SpecOrder == InitOrder /\ [][NextOrder]_vars

\* ------------------------------------------------------------------------
\* SpecParse
\* ------------------------------------------------------------------------
InitParse ==
    /\ AlgebraIdle
    /\ VerifyIdle
    /\ PipelineIdle
    /\ metadata_parameter = None(PreviousValue(MetadataKey))
    /\ discover_path = FALSE
    /\ worktree = WorkTree
    /\ generated = NotGenerated
    /\ excludes = <<>>
    /\ includes = <<>>
    /\ remaining = {}
    /\ text \in Strings

\* text.parse::<Parameter>()
FromStr ==
    /\ op = "off"
    /\ cmd = "none"
    /\ compatible = NotReturned
    /\ generated = NotGenerated
    /\ ret' = from_str(text)
    /\ op' = "from_str"
    /\ UNCHANGED <<A, B, self, verifyVars, pipelineVars, metadataVars, filterVars, orderVars, parseVars>>

NextParse == FromStr

SpecParse == InitParse /\ [][NextParse]_vars

\* ------------------------------------------------------------------------
\* SpecVerify
\* ------------------------------------------------------------------------
InitVerify ==
    /\ MetadataIdle
    /\ AlgebraIdle
    /\ previous_metadata \in
          {DeploymentMetadata(u, "t0", DeploymentMetadataGit(c, "main", d)) :
              u \in Users, c \in CommitStrings, d \in BOOLEAN}
    /\ current_metadata \in
          {DeploymentMetadata(u, "t1", DeploymentMetadataGit(c, "main", FALSE)) :
              u \in Users, c \in CommitStrings}
    /\ repo \in Repositories
    /\ merge_base_result = NotQueried
    /\ queries = <<>>
    /\ compatible = NotReturned
    /\ PipelineIdle

\* verify_changes_compatible(&previous_metadata, &current_metadata, path)
VerifyChangesCompatible ==
    /\ op = "off"
    /\ cmd = "none"
    /\ compatible = NotReturned
    /\ \E mb \in IF asks_merge_base(previous_metadata, current_metadata, repo)
                 THEN merge_base(repo.parents, previous_metadata.git.commit, repo.head.target)
                 ELSE {NotQueried} :
          /\ merge_base_result' = mb
          /\ compatible' = verify_changes_compatible(previous_metadata, current_metadata, repo, mb)
    /\ queries' = repository_queries(previous_metadata, current_metadata, repo)
    /\ UNCHANGED <<algebraVars, metadataVars, filterVars, orderVars, parseVars, previous_metadata, current_metadata, repo, pipelineVars>>

NextVerify == VerifyChangesCompatible

SpecVerify == InitVerify /\ [][NextVerify]_vars

\* ------------------------------------------------------------------------
\* SpecFilter
\* ------------------------------------------------------------------------
\* The patterns drawn: one that matches X, one that matches X and Y, and one
\* that is no regular expression.
Patterns == {Pattern(TRUE, {"X"}), Pattern(TRUE, {"X", "Y"}), Pattern(FALSE, {})}

PatternLists == UNION {[1..n -> Patterns] : n \in 0..MaxPatterns}

\* A holds the parameters handed in.
InitFilter ==
    /\ A \in ParameterSets
    /\ B = <<>>
    /\ self = A
    /\ ret = Unit
    /\ op = "init"
    /\ VerifyIdle
    /\ PipelineIdle
    /\ metadata_parameter = None(PreviousValue(MetadataKey))
    /\ discover_path = FALSE
    /\ worktree = WorkTree
    /\ generated = NotGenerated
    /\ excludes \in PatternLists
    /\ includes \in PatternLists
    /\ remaining = {}
    /\ text = <<>>

\* apply_excludes_includes(parameters, &opt.excludes, &opt.includes)
ApplyExcludesIncludes ==
    /\ op = "init"
    /\ ret' = apply_excludes_includes(A, excludes, includes)
    /\ op' = "apply_excludes_includes"
    /\ UNCHANGED <<A, B, self, verifyVars, pipelineVars, metadataVars, filterVars, orderVars, parseVars>>

NextFilter == ApplyExcludesIncludes

SpecFilter == InitFilter /\ [][NextFilter]_vars

\* ------------------------------------------------------------------------
\* SpecMetadata
\* ------------------------------------------------------------------------
\* The previous metadata parameter a caller hands in: none, one in
\* PreviousValue state, one whose value is no record, or one holding the
\* record of an earlier deployment.
PreviousMetadataParameters ==
    {None(PreviousValue(MetadataKey)),
     Some(PreviousValue(MetadataKey)),
     Some(WithValue(MetadataKey, "a"))}
        \cup {Some(WithValue(MetadataKey,
                     to_string(DeploymentMetadata("bob", "t0",
                                   DeploymentMetadataGit(c, "main", d))))) :
                  c \in {1, 3}, d \in BOOLEAN}

Worktrees ==
    {Worktree(c, e, r, s, d, rc, re) :
        c \in BOOLEAN, e \in {NoValue, "alice"}, r \in {NoValue, "main"},
        s \in BOOLEAN, d \in BOOLEAN, rc \in BOOLEAN, re \in {NoValue, "bob"}}

\* The repository at the path: none, or one whose HEAD cannot be resolved,
\* has no target, or points at a commit.
MetadataRepositories ==
    {NoRepository}
        \cup {[WorkRepository EXCEPT !.head = h] : h \in {HeadError, HeadSymbolic, HeadOk(2)}}

InitMetadata ==
    /\ AlgebraIdle
    /\ VerifyIdle
    /\ PipelineIdle
    /\ metadata_parameter \in PreviousMetadataParameters
    /\ discover_path \in BOOLEAN
    /\ worktree \in Worktrees
    /\ generated = NotGenerated
    /\ excludes = <<>>
    /\ includes = <<>>
    /\ remaining = {}
    /\ text = <<>>

\* generate_deployment_metadata(previous_metadata_parameter, git_discover_path);
\* the repository is what Repository::discover finds when it is asked.
GenerateDeploymentMetadata ==
    /\ op = "off"
    /\ cmd = "none"
    /\ compatible = NotReturned
    /\ generated = NotGenerated
    /\ \E repository \in IF discover_path /\ worktree.config_ok
                          THEN MetadataRepositories
                          ELSE {NoRepository} :
          /\ repo' = repository
          /\ generated' = generate_deployment_metadata(
                              metadata_parameter, discover_path, worktree, repository)
    /\ UNCHANGED <<algebraVars, previous_metadata, current_metadata, merge_base_result,
                   queries, compatible, pipelineVars, metadata_parameter, discover_path,
                   worktree, filterVars, orderVars, parseVars>>

NextMetadata == GenerateDeploymentMetadata

SpecMetadata == InitMetadata /\ [][NextMetadata]_vars

\* ------------------------------------------------------------------------
\* SpecPipeline: create_stack and update_stack
\*
\* The answers of CloudFormation, S3 and git are drawn when the command
\* asks for them.
\* ------------------------------------------------------------------------
InitPipeline ==
    /\ MetadataIdle
    /\ AlgebraIdle
    /\ VerifyIdle
    /\ cmd \in {"create_stack", "update_stack"}
    /\ pc = "start"
    /\ opt \in IF cmd = "update_stack" THEN UpdateOpts ELSE CreateOpts
    /\ template \in Templates
    /\ deployed = None(<<>>)
    /\ template_parameters = <<>>
    /\ stack_parameters = <<>>
    /\ new_parameters = <<>>
    /\ provided_parameters = <<>>
    /\ warnings = {}
    /\ remote = <<>>
    /\ submitted = None(<<>>)
    /\ outcome = Running

\* return Err(e), or an error propagated by ?
Fail(e) ==
    /\ outcome' = e
    /\ pc' = "done"

\* update_stack: Template::new and template.get_parameters_as_previous_value()
UpdateLoadTemplate ==
    /\ cmd = "update_stack"
    /\ pc = "start"
    /\ \/ /\ Fail(Error("IoError", "template"))
          /\ UNCHANGED template_parameters
       \/ /\ template_parameters' = get_parameters_as_previous_value(template)
          /\ pc' = "describe"
          /\ UNCHANGED outcome
    /\ UNCHANGED <<algebraVars, metadataVars, filterVars, orderVars, parseVars, verifyVars, cmd, opt, template, deployed, stack_parameters,
                   new_parameters, provided_parameters, warnings, remote, submitted>>

\* update_stack: stack.get_parameters_as_previous_value(&cfn) and
\* new_parameters = template_parameters.clone() - &stack_parameters
UpdateDescribeStack ==
    /\ cmd = "update_stack"
    /\ pc = "describe"
    /\ \E response \in DescribeStacksResponses :
          IF response.tag = "Err"
          THEN /\ Fail(Error(response.code, response.class))
               /\ UNCHANGED deployed
               /\ UNCHANGED <<stack_parameters, new_parameters>>
          ELSE /\ deployed' = Some(response.val)
               /\ stack_parameters' = get_parameters_as_previous_value(response.val)
               /\ new_parameters' = sub(template_parameters, stack_parameters')
               /\ pc' = "provided"
               /\ UNCHANGED outcome
    /\ UNCHANGED <<algebraVars, metadataVars, filterVars, orderVars, parseVars, verifyVars, cmd, opt, template, template_parameters,
                   provided_parameters, warnings, remote, submitted>>

\* update_stack: the user provided parameters, from the file or the command
\* line, with the defaults applied and the only-new-parameters filter.
update_provided_parameters(o, template_params, new_params) ==
    LET from_file == new(SelectSeq(o.parameter_path.contents, LAMBDA q : ~is_previous_value(q)))
        filtered == IF o.parameter_path.given
                    THEN apply_excludes_includes(from_file, o.filters.excludes, o.filters.includes)
                    ELSE OkParameters(new(o.parameters))
        defaulted == util_apply_defaults(filtered.val, o.parameter_defaults_path)
        with_template == apply_defaults(defaulted.val, template_params)
        only_new == IF o.only_new_parameters
                    THEN new(SelectSeq(with_template, LAMBDA q : contains_key(new_params, key(q))))
                    ELSE with_template
    IN  IF o.parameter_path.given /\ ~o.parameter_path.readable
        THEN ErrParameters("IoError", "parameter_path")
        ELSE IF filtered.tag = "Err" THEN filtered
        ELSE IF defaulted.tag = "Err" THEN defaulted
        ELSE OkParameters(only_new)

UpdateProvidedParameters ==
    /\ cmd = "update_stack"
    /\ pc = "provided"
    /\ LET provided == update_provided_parameters(opt, template_parameters, new_parameters)
       IN  IF provided.tag = "Err"
           THEN /\ Fail(Error(provided.code, provided.class))
                /\ UNCHANGED provided_parameters
           ELSE /\ provided_parameters' = provided.val
                /\ pc' = "completeness"
                /\ UNCHANGED outcome
    /\ UNCHANGED <<algebraVars, metadataVars, filterVars, orderVars, parseVars, verifyVars, cmd, opt, template, deployed, template_parameters,
                   stack_parameters, new_parameters, warnings, remote, submitted>>

\* update_stack: the user has to provide exactly the new parameters, unless
\* the change set is forced; then template_parameters.update(provided_parameters).
UpdateValidateCompleteness ==
    /\ cmd = "update_stack"
    /\ pc = "completeness"
    /\ IF completeness_gate(new_parameters, provided_parameters, opt.force_create) = "fail"
       THEN /\ Fail(Error("InvalidParameters", "completeness"))
            /\ UNCHANGED <<template_parameters, warnings>>
       ELSE /\ warnings' =
                   IF completeness_gate(new_parameters, provided_parameters, opt.force_create)
                          = "warn"
                   THEN warnings \cup {"completeness"}
                   ELSE warnings
            /\ template_parameters' = update(template_parameters, provided_parameters)
            /\ pc' = "metadata"
            /\ UNCHANGED outcome
    /\ UNCHANGED <<algebraVars, metadataVars, filterVars, orderVars, parseVars, verifyVars, cmd, opt, template, deployed, stack_parameters,
                   new_parameters, provided_parameters, remote, submitted>>

\* A plausible slip: the record only replaces a metadata parameter that is
\* already there.
insert_metadata_if_present(parameters, metadata) ==
    update(parameters, <<WithValue(MetadataKey, to_string(metadata))>>)

\* template_parameters.insert(key, WithValue { key, value: metadata.to_string() })
insert_metadata(parameters, metadata) ==
    insert(parameters, WithValue(MetadataKey, to_string(metadata)))

\* update_stack: unless opted out, read the previous metadata parameter of
\* the stack and generate the new record; without a previous record that
\* parses, the new one is inserted at once.
UpdateMetadata ==
    /\ cmd = "update_stack"
    /\ pc = "metadata"
    /\ IF opt.dont_update_deployment_metadata
       THEN /\ pc' = "create_change_set"
            /\ UNCHANGED <<verifyVars, template_parameters, warnings, outcome>>
       ELSE IF ~contains_key(template_parameters, MetadataKey)
       THEN /\ warnings' = warnings \cup {"no_metadata_parameter"}
            /\ pc' = "create_change_set"
            /\ UNCHANGED <<verifyVars, template_parameters, outcome>>
       ELSE \/ /\ Fail(Error("AwsError", "get_parameter"))
               /\ UNCHANGED <<verifyVars, template_parameters, warnings>>
            \/ \E previous_metadata_parameter \in GetParameterResponses(keys(stack_parameters)),
                  repository \in PipelineRepositories :
                  LET previous == IF previous_metadata_parameter.some
                                  THEN try_from(previous_metadata_parameter.v)
                                  ELSE None(NoMetadata)
                      metadata == generate_deployment_metadata(
                                      previous_metadata_parameter, TRUE, WorkTree, repository)
                  IN  /\ repo' = repository
                      /\ IF metadata.tag = "Err"
                         THEN /\ Fail(Error(metadata.code, metadata.class))
                              /\ UNCHANGED <<previous_metadata, current_metadata,
                                             template_parameters>>
                         ELSE /\ current_metadata' = metadata.val
                              /\ UNCHANGED outcome
                              /\ IF previous.some
                                 THEN /\ previous_metadata' = previous.v
                                      /\ pc' = "verify"
                                      /\ UNCHANGED template_parameters
                                 ELSE /\ template_parameters' =
                                             insert_metadata(template_parameters, metadata.val)
                                      /\ pc' = "create_change_set"
                                      /\ UNCHANGED previous_metadata
                      /\ UNCHANGED <<merge_base_result, queries, compatible, warnings>>
    /\ UNCHANGED <<algebraVars, metadataVars, filterVars, orderVars, parseVars, cmd, opt, template, deployed, stack_parameters, new_parameters,
                   provided_parameters, remote, submitted>>

\* update_stack: verify_changes_compatible(&previous_metadata, &metadata, path);
\* a negative verdict ends the run unless the change set is forced.
UpdateVerifyCompatible ==
    /\ cmd = "update_stack"
    /\ pc = "verify"
    /\ \E mb \in IF asks_merge_base(previous_metadata, current_metadata, repo)
                 THEN merge_base(repo.parents, previous_metadata.git.commit, repo.head.target)
                 ELSE {NotQueried} :
          LET changes_compatible ==
                  verify_changes_compatible(previous_metadata, current_metadata, repo, mb)
          IN  /\ merge_base_result' = mb
              /\ compatible' = changes_compatible
              /\ IF changes_compatible.tag = "Err"
                 THEN /\ Fail(Error("GitError", changes_compatible.class))
                      /\ UNCHANGED <<template_parameters, warnings>>
                 ELSE IF compatibility_gate(changes_compatible.val, opt.force_create) = "fail"
                 THEN /\ Fail(Error("InvalidTemplate", "not_compatible"))
                      /\ UNCHANGED <<template_parameters, warnings>>
                 ELSE /\ warnings' =
                             IF compatibility_gate(changes_compatible.val, opt.force_create)
                                    = "warn"
                             THEN warnings \cup {"not_compatible"}
                             ELSE warnings
                      /\ template_parameters' =
                             insert_metadata(template_parameters, current_metadata)
                      /\ pc' = "create_change_set"
                      /\ UNCHANGED outcome
    /\ queries' = repository_queries(previous_metadata, current_metadata, repo)
    /\ UNCHANGED <<algebraVars, metadataVars, filterVars, orderVars, parseVars, previous_metadata, current_metadata, repo, cmd, opt, template, deployed,
                   stack_parameters, new_parameters, provided_parameters, remote, submitted>>

\* Template::create_change_set: the parameters must have the declared keys;
\* the template goes to S3 when a bucket is configured.
CreateChangeSetValidate ==
    /\ cmd \in {"create_stack", "update_stack"}
    /\ pc = "create_change_set"
    /\ IF ~validate_parameters(template, template_parameters)
       THEN Fail(Error("InvalidParameters", "template"))
       ELSE /\ pc' = template_destination(opt.s3_bucket_name)
            /\ UNCHANGED outcome
    /\ UNCHANGED <<algebraVars, metadataVars, filterVars, orderVars, parseVars, verifyVars, cmd, opt, template, deployed, localVars, warnings,
                   remote, submitted>>

\* Template::upload_to_s3: S3Uploader::upload puts the object, or fails.
UploadToS3 ==
    /\ pc = "upload_to_s3"
    /\ \/ /\ Fail(Error("AwsError", "put_object"))
          /\ UNCHANGED remote
       \/ /\ remote' = Append(remote, "put_object")
          /\ pc' = "submit"
          /\ UNCHANGED outcome
    /\ UNCHANGED <<algebraVars, metadataVars, filterVars, orderVars, parseVars, verifyVars, cmd, opt, template, deployed, localVars, warnings, submitted>>

\* cfn.create_change_set(create_change_set_input): the change set is
\* created, or the call fails.
SubmitChangeSet ==
    /\ pc = "submit"
    /\ submitted' = Some(template_parameters)
    /\ \/ /\ Fail(Error("AwsError", "create_change_set"))
          /\ UNCHANGED remote
       \/ /\ remote' = Append(remote, "create_change_set")
          /\ outcome' = Success
          /\ pc' = "done"
    /\ UNCHANGED <<algebraVars, metadataVars, filterVars, orderVars, parseVars, verifyVars, cmd, opt, template, deployed, localVars, warnings>>

\* create_stack: Template::new and template.get_parameters().to_owned()
CreateLoadTemplate ==
    /\ cmd = "create_stack"
    /\ pc = "start"
    /\ \/ /\ Fail(Error("IoError", "template"))
          /\ UNCHANGED template_parameters
       \/ /\ template_parameters' = template
          /\ pc' = "provided"
          /\ UNCHANGED outcome
    /\ UNCHANGED <<algebraVars, metadataVars, filterVars, orderVars, parseVars, verifyVars, cmd, opt, template, deployed, stack_parameters,
                   new_parameters, provided_parameters, warnings, remote, submitted>>

\* create_stack: the value-carrying parameters of the file, then the
\* command-line parameters, update the template parameters.
CreateProvidedParameters ==
    /\ cmd = "create_stack"
    /\ pc = "provided"
    /\ IF opt.parameter_path.given /\ ~opt.parameter_path.readable
       THEN /\ Fail(Error("IoError", "parameter_path"))
            /\ UNCHANGED template_parameters
       ELSE LET from_file ==
                    new(SelectSeq(opt.parameter_path.contents, LAMBDA q : ~is_previous_value(q)))
                with_file == IF opt.parameter_path.given
                             THEN update(template_parameters, from_file)
                             ELSE template_parameters
            IN  /\ template_parameters' = update(with_file, new(opt.parameters))
                /\ pc' = "metadata"
                /\ UNCHANGED outcome
    /\ UNCHANGED <<algebraVars, metadataVars, filterVars, orderVars, parseVars, verifyVars, cmd, opt, template, deployed, stack_parameters,
                   new_parameters, provided_parameters, warnings, remote, submitted>>

\* create_stack: unless opted out, generate the metadata record and insert it.
CreateMetadata ==
    /\ cmd = "create_stack"
    /\ pc = "metadata"
    /\ IF opt.dont_update_deployment_metadata
       THEN /\ pc' = "missing"
            /\ UNCHANGED <<verifyVars, template_parameters, outcome>>
       ELSE \E repository \in PipelineRepositories :
               LET metadata == generate_deployment_metadata(
                                   None(PreviousValue(MetadataKey)), TRUE, WorkTree, repository)
               IN  /\ repo' = repository
                   /\ IF metadata.tag = "Err"
                      THEN /\ Fail(Error(metadata.code, metadata.class))
                           /\ UNCHANGED <<current_metadata, template_parameters>>
                      ELSE /\ current_metadata' = metadata.val
                           /\ template_parameters' =
                                  insert_metadata(template_parameters, metadata.val)
                           /\ pc' = "missing"
                           /\ UNCHANGED outcome
                   /\ UNCHANGED <<previous_metadata, merge_base_result, queries, compatible>>
    /\ UNCHANGED <<algebraVars, metadataVars, filterVars, orderVars, parseVars, cmd, opt, template, deployed, stack_parameters, new_parameters,
                   provided_parameters, warnings, remote, submitted>>

\* create_stack: every parameter needs a value, unless the change set is forced.
CreateMissingParameters ==
    /\ cmd = "create_stack"
    /\ pc = "missing"
    /\ LET missing_parameters == SelectSeq(template_parameters, LAMBDA q : is_previous_value(q))
       IN  IF missing_parameters # <<>> /\ ~opt.force_create
           THEN /\ Fail(Error("InvalidParameters", "missing"))
                /\ UNCHANGED warnings
           ELSE /\ warnings' = IF missing_parameters # <<>>
                               THEN warnings \cup {"missing"}
                               ELSE warnings
                /\ pc' = "create_change_set"
                /\ UNCHANGED outcome
    /\ UNCHANGED <<algebraVars, metadataVars, filterVars, orderVars, parseVars, verifyVars, cmd, opt, template, deployed, localVars, remote, submitted>>

NextPipeline ==
    \/ UpdateLoadTemplate
    \/ UpdateDescribeStack
    \/ UpdateProvidedParameters
    \/ UpdateValidateCompleteness
    \/ UpdateMetadata
    \/ UpdateVerifyCompatible
    \/ CreateLoadTemplate
    \/ CreateProvidedParameters
    \/ CreateMetadata
    \/ CreateMissingParameters
    \/ CreateChangeSetValidate
    \/ UploadToS3
    \/ SubmitChangeSet

SpecPipeline == InitPipeline /\ [][NextPipeline]_vars

\* ------------------------------------------------------------------------
\* SpecOverride: override_parameters
\*
\* The command has no template; the change set reuses the deployed one.
\* ------------------------------------------------------------------------
InitOverride ==
    /\ MetadataIdle
    /\ AlgebraIdle
    /\ VerifyIdle
    /\ cmd = "override_parameters"
    /\ pc = "start"
    /\ opt \in OverrideOpts
    /\ template = <<>>
    /\ deployed = None(<<>>)
    /\ template_parameters = <<>>
    /\ stack_parameters = <<>>
    /\ new_parameters = <<>>
    /\ provided_parameters = <<>>
    /\ warnings = {}
    /\ remote = <<>>
    /\ submitted = None(<<>>)
    /\ outcome = Running

\* override_parameters: stack.get_parameters_as_previous_value(&cfn)
OverrideDescribeStack ==
    /\ cmd = "override_parameters"
    /\ pc = "start"
    /\ \E response \in DescribeStacksResponses :
          IF response.tag = "Err"
          THEN /\ Fail(Error(response.code, response.class))
               /\ UNCHANGED deployed
               /\ UNCHANGED stack_parameters
          ELSE /\ deployed' = Some(response.val)
               /\ stack_parameters' = get_parameters_as_previous_value(response.val)
               /\ pc' = "provided"
               /\ UNCHANGED outcome
    /\ UNCHANGED <<algebraVars, metadataVars, filterVars, orderVars, parseVars, verifyVars, cmd, opt, template,
                   template_parameters, new_parameters, provided_parameters, warnings,
                   remote, submitted>>

\* A plausible slip: the overrides are merged in, which adds keys the stack
\* does not have.
override_merges(o, stack_params) ==
    LET from_file == new(SelectSeq(o.parameter_path.contents, LAMBDA q : ~is_previous_value(q)))
        filtered == apply_excludes_includes(from_file, o.filters.excludes, o.filters.includes)
        with_file == IF o.parameter_path.given
                     THEN merge(stack_params, filtered.val)
                     ELSE stack_params
    IN  IF o.parameter_path.given /\ ~o.parameter_path.readable
        THEN ErrParameters("IoError", "parameter_path")
        ELSE IF o.parameter_path.given /\ filtered.tag = "Err" THEN filtered
        ELSE OkParameters(merge(with_file, new(o.parameters)))

\* A plausible slip: the file is applied after the overrides of the command
\* line.
override_file_last(o, stack_params) ==
    LET from_file == new(SelectSeq(o.parameter_path.contents, LAMBDA q : ~is_previous_value(q)))
        filtered == apply_excludes_includes(from_file, o.filters.excludes, o.filters.includes)
        with_overrides == update(stack_params, new(o.parameters))
    IN  IF o.parameter_path.given /\ ~o.parameter_path.readable
        THEN ErrParameters("IoError", "parameter_path")
        ELSE IF o.parameter_path.given /\ filtered.tag = "Err" THEN filtered
        ELSE OkParameters(IF o.parameter_path.given
                          THEN update(with_overrides, filtered.val)
                          ELSE with_overrides)

\* override_parameters: the stack parameters after the value-carrying,
\* filtered parameters of the file and then the overrides of the command
\* line have updated them.
override_stack_parameters(o, stack_params) ==
    LET from_file == new(SelectSeq(o.parameter_path.contents, LAMBDA q : ~is_previous_value(q)))
        filtered == apply_excludes_includes(from_file, o.filters.excludes, o.filters.includes)
        with_file == IF o.parameter_path.given
                     THEN update(stack_params, filtered.val)
                     ELSE stack_params
    IN  IF o.parameter_path.given /\ ~o.parameter_path.readable
        THEN ErrParameters("IoError", "parameter_path")
        ELSE IF o.parameter_path.given /\ filtered.tag = "Err" THEN filtered
        ELSE OkParameters(update(with_file, new(o.parameters)))

\* override_parameters: the two updates, and the early answer when the
\* stack has no parameters.
OverrideUpdateParameters ==
    /\ cmd = "override_parameters"
    /\ pc = "provided"
    /\ LET overridden == override_stack_parameters(opt, stack_parameters)
       IN  IF overridden.tag = "Err"
           THEN /\ Fail(Error(overridden.code, overridden.class))
                /\ UNCHANGED stack_parameters
           ELSE /\ stack_parameters' = overridden.val
                /\ IF overridden.val = <<>>
                   THEN /\ outcome' = NoChangeSet
                        /\ pc' = "done"
                   ELSE /\ pc' = "metadata"
                        /\ UNCHANGED outcome
    /\ UNCHANGED <<algebraVars, metadataVars, filterVars, orderVars, parseVars, verifyVars, cmd, opt, template, deployed,
                   template_parameters, new_parameters, provided_parameters, warnings,
                   remote, submitted>>

\* override_parameters: unless opted out, the metadata parameter of the
\* stack is read and, when the stack has it, replaced by the record
\* generate_deployment_metadata(Some(previous), None) gives.
OverrideMetadata ==
    /\ cmd = "override_parameters"
    /\ pc = "metadata"
    /\ IF opt.dont_update_deployment_metadata
       THEN /\ pc' = "stack_submit"
            /\ UNCHANGED <<current_metadata, stack_parameters, warnings, outcome>>
       ELSE \/ /\ Fail(Error("AwsError", "get_parameter"))
               /\ UNCHANGED <<current_metadata, stack_parameters, warnings>>
            \/ \E previous_metadata_parameter \in GetParameterResponses(keys(stack_parameters)),
                  tree \in {WorkTree, [WorkTree EXCEPT !.config_ok = FALSE]} :
                  IF ~previous_metadata_parameter.some
                  THEN /\ warnings' = warnings \cup {"no_metadata_parameter"}
                       /\ pc' = "stack_submit"
                       /\ UNCHANGED <<current_metadata, stack_parameters, outcome>>
                  ELSE LET metadata == generate_deployment_metadata(
                                           previous_metadata_parameter, FALSE, tree, NoRepository)
                       IN  IF metadata.tag = "Err"
                           THEN /\ Fail(Error(metadata.code, metadata.class))
                                /\ UNCHANGED <<current_metadata, stack_parameters, warnings>>
                           ELSE /\ current_metadata' = metadata.val
                                /\ stack_parameters' =
                                       insert_metadata(stack_parameters, metadata.val)
                                /\ pc' = "stack_submit"
                                /\ UNCHANGED <<warnings, outcome>>
    /\ UNCHANGED <<algebraVars, metadataVars, filterVars, orderVars, parseVars, previous_metadata, repo, merge_base_result,
                   queries, compatible, cmd, opt, template, deployed, template_parameters,
                   new_parameters, provided_parameters, remote, submitted>>

\* Stack::create_change_set: cfn.create_change_set with the stack
\* parameters and the previous template; the change set is created, or the
\* call fails.
StackCreateChangeSet ==
    /\ pc = "stack_submit"
    /\ submitted' = Some(stack_parameters)
    /\ \/ /\ Fail(Error("AwsError", "create_change_set"))
          /\ UNCHANGED remote
       \/ /\ remote' = Append(remote, "create_change_set")
          /\ outcome' = Success
          /\ pc' = "done"
    /\ UNCHANGED <<algebraVars, metadataVars, filterVars, orderVars, parseVars, verifyVars, cmd, opt, template, deployed, localVars,
                   warnings>>

NextOverride ==
    \/ OverrideDescribeStack
    \/ OverrideUpdateParameters
    \/ OverrideMetadata
    \/ StackCreateChangeSet

SpecOverride == InitOverride /\ [][NextOverride]_vars

\* ------------------------------------------------------------------------
\* Properties of the Parameters operations (checked under SpecAlgebra)
\* ------------------------------------------------------------------------
\* r is a after "override without addition" by b.
UpdateContract(a, b, r) ==
    /\ UniqueKeys(r)
    /\ keys(r) = keys(a)
    /\ \A k \in keys(a) : get(r, k) = IF k \in keys(b) THEN get(b, k) ELSE get(a, k)

\* C1: A.update(B), and the copy A.updated(B) returns, has exactly the keys
\* of A; a key also in B maps to B's entry (a WithValue entry may be replaced
\* by a PreviousValue one), every other key keeps A's entry.  updated leaves
\* the receiver alone.
C1_UpdateOverridesWithoutAdding ==
    /\ op = "update" => UpdateContract(A, B, self)
    /\ op = "updated" => self = A /\ UpdateContract(A, B, ret)

\* update met a key only B has, and replaced a WithValue by a PreviousValue.
C1_Witness ==
    /\ op = "update"
    /\ keys(B) \ keys(A) # {}
    /\ keys(A) \ keys(B) # {}
    /\ \E k \in keys(A) \cap keys(B) :
          /\ get(A, k).variant = "WithValue"
          /\ get(B, k).variant = "PreviousValue"
          /\ get(self, k).variant = "PreviousValue"

\* r is the union of a and b in which b wins.
MergeContract(a, b, r) ==
    /\ UniqueKeys(r)
    /\ keys(r) = keys(a) \cup keys(b)
    /\ \A k \in keys(b) : get(r, k) = get(b, k)
    /\ \A k \in keys(a) \ keys(b) : get(r, k) = get(a, k)

\* C8: A.merge(B), and the copy A.merged(B) returns, has the keys of A and
\* of B; every key of B maps to B's entry and every key only in A keeps A's.
C8_MergeIsUnionOtherWins ==
    /\ op = "merge" => MergeContract(A, B, self)
    /\ op = "merged" => self = A /\ MergeContract(A, B, ret)

\* merge added a key, overwrote a shared key with a different entry and
\* kept a key of its own.
C8_Witness ==
    /\ op = "merge"
    /\ keys(B) \ keys(A) # {}
    /\ keys(A) \ keys(B) # {}
    /\ \E k \in keys(A) \cap keys(B) : get(A, k) # get(B, k) /\ get(self, k) = get(B, k)

\* C9: A - B holds exactly the keys of A that are not keys of B, each with
\* A's entry, whatever the two sides hold for a shared key; A - A is empty
\* and A - {} is A.
C9_SubIsKeyDifference ==
    op = "sub" =>
        /\ UniqueKeys(ret)
        /\ keys(ret) = keys(A) \ keys(B)
        /\ \A k \in keys(ret) : get(ret, k) = get(A, k)
        /\ (MapEq(A, B) => ret = <<>>)
        /\ (B = <<>> => MapEq(ret, A))

\* a shared key whose entries differ was removed, another key was kept.
C9_Witness ==
    /\ op = "sub"
    /\ ret # <<>>
    /\ \E k \in keys(A) \cap keys(B) : get(A, k) # get(B, k) /\ k \notin keys(ret)

\* r is a with the defaults d applied.
DefaultsContract(a, d, r) ==
    /\ UniqueKeys(r)
    /\ keys(r) = keys(a)
    /\ \A k \in keys(a) :
          IF /\ get(a, k).variant = "PreviousValue"
             /\ k \in keys(d)
             /\ get(d, k).variant = "WithValue"
          THEN get(r, k) = WithValue(k, get(d, k).value)
          ELSE get(r, k) = get(a, k)

\* C10: A.apply_defaults(D) turns the entry of k into WithValue(k, v)
\* exactly when A holds k as PreviousValue and D holds it WithValue v; every
\* other entry of A stays as it is, and no key is added or removed.
C10_ApplyDefaultsFillsPreviousValues ==
    /\ op = "apply_defaults" => DefaultsContract(A, B, self)
    /\ op = "with_defaults" => self = A /\ DefaultsContract(A, B, ret)

\* a WithValue entry met a different default and kept its value, while a
\* PreviousValue entry was filled.
C10_Witness ==
    /\ op = "apply_defaults"
    /\ \E k \in keys(A) \cap keys(B) :
          /\ get(A, k).variant = "WithValue"
          /\ get(B, k).variant = "WithValue"
          /\ get(A, k).value # get(B, k).value
    /\ \E k \in keys(A) \cap keys(B) :
          /\ get(A, k).variant = "PreviousValue"
          /\ get(self, k).variant = "WithValue"

\* C11: A.loosely_equal(B) is true iff A and B have the same keys and, for
\* every key, B's parameter is PreviousValue or is A's parameter.  The
\* relation is one-sided: PreviousValue in A against WithValue in B for the
\* same key gives false.
C11_LooselyEqualIsOneSided ==
    op = "loosely_equal" =>
        /\ self = A
        /\ ret = (/\ keys(A) = keys(B)
                  /\ \A k \in keys(A) :
                        get(B, k).variant = "PreviousValue" \/ get(B, k) = get(A, k))
        /\ (\E k \in keys(A) \cap keys(B) :
                get(A, k).variant = "PreviousValue" /\ get(B, k).variant = "WithValue")
              => ret = FALSE

\* the two sides have the same keys; one key is WithValue in A and
\* PreviousValue in B, which alone would be loosely equal, and another is
\* PreviousValue in A and WithValue in B; the answer is false.
C11_Witness ==
    /\ op = "loosely_equal"
    /\ keys(A) = keys(B)
    /\ \E k \in keys(A) :
          get(A, k).variant = "WithValue" /\ get(B, k).variant = "PreviousValue"
    /\ \E k \in keys(A) :
          get(A, k).variant = "PreviousValue" /\ get(B, k).variant = "WithValue"
    /\ ret = FALSE

\* The keys of a Vec of parameters, and of a Vec of pairs of parameters.
BucketKeys(bucket) == {bucket[i].key : i \in 1..Len(bucket)}

PairKeys(bucket) == {bucket[i][1].key : i \in 1..Len(bucket)}

\* No two entries of the Vec have the same key.
BucketDistinct(bucket) ==
    \A i, j \in 1..Len(bucket) : bucket[i].key = bucket[j].key => i = j

PairsDistinct(bucket) ==
    \A i, j \in 1..Len(bucket) : bucket[i][1].key = bucket[j][1].key => i = j

\* The two parameters are loosely equal, the second being the other side.
LooselyEqualEntries(p, q) == q.variant = "PreviousValue" \/ p = q

\* C12: when A.loose_difference(B) returns a difference, left holds the
\* keys only A has, right the keys only B has, unequal the shared keys whose
\* parameters are not loosely equal (as the pair of A's and B's parameter)
\* and equal the shared keys whose parameters are; so every key of A or B
\* is in exactly one bucket, and no bucket holds a key twice.
C12_BucketsPartitionTheKeys ==
    (op = "loose_difference" /\ ret.some) =>
        LET d == ret.v
            shared == keys(A) \cap keys(B)
        IN  /\ BucketKeys(d.left) = keys(A) \ keys(B)
            /\ BucketKeys(d.right) = keys(B) \ keys(A)
            /\ PairKeys(d.unequal) =
                  {k \in shared : ~LooselyEqualEntries(get(A, k), get(B, k))}
            /\ BucketKeys(d.equal) =
                  {k \in shared : LooselyEqualEntries(get(A, k), get(B, k))}
            /\ \A i \in 1..Len(d.left) : d.left[i] = get(A, d.left[i].key)
            /\ \A i \in 1..Len(d.right) : d.right[i] = get(B, d.right[i].key)
            /\ \A i \in 1..Len(d.unequal) :
                  /\ d.unequal[i][1] = get(A, d.unequal[i][1].key)
                  /\ d.unequal[i][2] = get(B, d.unequal[i][1].key)
            /\ BucketDistinct(d.left)
            /\ BucketDistinct(d.right)
            /\ BucketDistinct(d.equal)
            /\ PairsDistinct(d.unequal)
            /\ Len(d.left) + Len(d.right) + Len(d.unequal) + Len(d.equal)
                  = Cardinality(keys(A) \cup keys(B))

\* a difference with a key in the equal bucket next to a key only B has
\* and a key only A has.
C12_Witness ==
    /\ op = "loose_difference"
    /\ ret.some
    /\ Len(ret.v.equal) > 0
    /\ Len(ret.v.right) > 0
    /\ Len(ret.v.left) > 0

\* C13: a parameter in the equal bucket of A.loose_difference(B) is
\* WithValue whenever A's or B's parameter of that key is WithValue; when
\* A's is WithValue and B's is PreviousValue, the bucket holds A's.
C13_EqualBucketKeepsTheValue ==
    (op = "loose_difference" /\ ret.some) =>
        \A i \in 1..Len(ret.v.equal) :
            LET e == ret.v.equal[i]
                a == get(A, e.key)
                b == get(B, e.key)
            IN  /\ (a.variant = "WithValue" \/ b.variant = "WithValue")
                      => e.variant = "WithValue"
                /\ (a.variant = "WithValue" /\ b.variant = "PreviousValue") => e = a

\* a difference whose equal bucket kept A's value against B's PreviousValue.
C13_Witness ==
    /\ op = "loose_difference"
    /\ ret.some
    /\ \E i \in 1..Len(ret.v.equal) :
          /\ ret.v.equal[i].variant = "WithValue"
          /\ get(B, ret.v.equal[i].key).variant = "PreviousValue"
          /\ ret.v.equal[i] = get(A, ret.v.equal[i].key)

\* ------------------------------------------------------------------------
\* Properties of apply_excludes_includes (checked under SpecFilter)
\* ------------------------------------------------------------------------
\* Every pattern of the list is a regular expression.
Compiles(patterns) == \A i \in 1..Len(patterns) : patterns[i].valid

\* Some pattern of the list matches key k.
Matches(patterns, k) == \E i \in 1..Len(patterns) : k \in patterns[i].matches

\* C20: the parameters apply_excludes_includes returns are exactly those
\* of its input whose key no exclude pattern matches and, when there are
\* include patterns, some include pattern matches; a parameter an exclude
\* pattern matches is never returned, whatever the include patterns are;
\* an empty list filters nothing; and a returned parameter is the one handed
\* in.
C20_FilterKeepsUnexcludedIncluded ==
    (op = "apply_excludes_includes" /\ ret.tag = "Ok") =>
        /\ UniqueKeys(ret.val)
        /\ Range(ret.val) =
              {q \in Range(A) : /\ ~Matches(excludes, q.key)
                                /\ includes # <<>> => Matches(includes, q.key)}
        /\ \A q \in Range(A) : Matches(excludes, q.key) => q.key \notin keys(ret.val)
        /\ excludes = <<>> =>
              Range(ret.val) = {q \in Range(A) : includes # <<>> => Matches(includes, q.key)}
        /\ includes = <<>> =>
              Range(ret.val) = {q \in Range(A) : ~Matches(excludes, q.key)}
        /\ (excludes = <<>> /\ includes = <<>>) => ret.val = A

\* a parameter that an exclude and an include pattern both match was
\* removed, and another, which only the include pattern matches, was kept.
C20_Witness ==
    /\ op = "apply_excludes_includes"
    /\ ret.tag = "Ok"
    /\ \E q \in Range(A) :
          /\ Matches(excludes, q.key)
          /\ Matches(includes, q.key)
          /\ q.key \notin keys(ret.val)
    /\ \E q \in Range(A) :
          /\ ~Matches(excludes, q.key)
          /\ Matches(includes, q.key)
          /\ q \in Range(ret.val)

\* ------------------------------------------------------------------------
\* Properties of verify_changes_compatible (checked under SpecVerify)
\* ------------------------------------------------------------------------
VerifyDone == compatible.tag # "NotReturned"

\* The repository can be opened and HEAD points at a commit.
RepoUsable == repo.discoverable /\ repo.head.kind = "ok"

\* c is a commit of the repository from which HEAD descends in one or more steps.
StrictAncestorOfHead(c) ==
    /\ RepoUsable
    /\ c \in Odb
    /\ c # repo.head.target
    /\ c \in Ancestors(repo.parents, repo.head.target)

\* c and HEAD share history, but HEAD does not descend from c.
DivergedFromHead(c) ==
    /\ RepoUsable
    /\ c \in Odb
    /\ c \notin Ancestors(repo.parents, repo.head.target)
    /\ Ancestors(repo.parents, c) \cap Ancestors(repo.parents, repo.head.target) # {}

\* C2: with a clean previous deployment the verdict is the ancestry alone:
\* true without any repository query when the two commits are equal, and
\* otherwise true iff the merge-base of previous.commit and HEAD is
\* previous.commit; a strict ancestor gives true, diverged branches give
\* false, whatever the two users are.
C2_CleanPreviousIsAncestry ==
    (VerifyDone /\ ~previous_metadata.git.dirty) =>
        LET prev_commit == previous_metadata.git.commit
            cur_commit == current_metadata.git.commit
        IN  /\ prev_commit = cur_commit => compatible = Ok(TRUE) /\ queries = <<>>
            /\ prev_commit # cur_commit => (compatible = Ok(TRUE) <=> merge_base_result = OkOid(prev_commit))
            /\ (prev_commit # cur_commit /\ StrictAncestorOfHead(prev_commit)) => compatible = Ok(TRUE)
            /\ (prev_commit # cur_commit /\ DivergedFromHead(prev_commit)) => compatible = Ok(FALSE)

\* a clean deployment by another user, from a strict ancestor of HEAD, is
\* found compatible after the merge-base was asked.
C2_Witness ==
    /\ VerifyDone
    /\ ~previous_metadata.git.dirty
    /\ previous_metadata.user # current_metadata.user
    /\ previous_metadata.git.commit # current_metadata.git.commit
    /\ StrictAncestorOfHead(previous_metadata.git.commit)
    /\ queries = <<"discover", "head", "merge_base">>
    /\ compatible = Ok(TRUE)

\* C3: with a dirty previous deployment the verdict is true iff the users
\* are equal and the previous commit is an ancestor (equal commits, or the
\* merge-base is the previous commit); with different users a verdict is
\* always false, ancestor or not.
C3_DirtyPreviousNeedsSameUser ==
    (VerifyDone /\ previous_metadata.git.dirty) =>
        LET prev_commit == previous_metadata.git.commit
            cur_commit == current_metadata.git.commit
            is_ancestor == prev_commit = cur_commit \/ merge_base_result = OkOid(prev_commit)
            same_user == previous_metadata.user = current_metadata.user
        IN  /\ compatible = Ok(TRUE) <=> (same_user /\ is_ancestor)
            /\ (~same_user /\ compatible.tag = "Ok") => compatible = Ok(FALSE)

\* a dirty deployment by another user is refused although its commit is a
\* strict ancestor of HEAD.
C3_Witness ==
    /\ VerifyDone
    /\ previous_metadata.git.dirty
    /\ previous_metadata.user # current_metadata.user
    /\ previous_metadata.git.commit # current_metadata.git.commit
    /\ StrictAncestorOfHead(previous_metadata.git.commit)
    /\ compatible = Ok(FALSE)

\* C4: when the commits differ and the merge-base query fails with the
\* missing-object error (a commit the repository does not have), the
\* verdict is false and no error is returned, dirty or clean.
C4_UnknownCommitIsNotCompatible ==
    VerifyDone =>
        LET prev_commit == previous_metadata.git.commit
            cur_commit == current_metadata.git.commit
        IN  /\ (prev_commit # cur_commit /\ merge_base_result = Err("GenericError", "Odb"))
                  => compatible = Ok(FALSE)
            /\ (prev_commit # cur_commit /\ prev_commit = UnknownCommit /\ RepoUsable) => compatible = Ok(FALSE)

\* the previous commit is unknown to the repository, the same user deploys
\* over a dirty deployment, and the verdict is false.
C4_Witness ==
    /\ VerifyDone
    /\ previous_metadata.git.commit = UnknownCommit
    /\ current_metadata.git.commit \in Odb
    /\ previous_metadata.git.dirty
    /\ previous_metadata.user = current_metadata.user
    /\ merge_base_result = Err("GenericError", "Odb")
    /\ compatible = Ok(FALSE)

\* C16 as stated: verify_changes_compatible always returns a boolean, never
\* an error.
C16_AlwaysReturnsABoolean ==
    VerifyDone => compatible.tag = "Ok"

\* C16 as amended: the result is a function of the two records and the
\* repository alone.  It is a boolean when the two commits are equal, or
\* when the repository is found, the previous commit is a well-formed hash,
\* HEAD points at a commit and the previous commit is either unknown to
\* the repository or shares history with HEAD; the boolean is "the previous
\* commit is an ancestor of (or equal to) the current one, and the users
\* are equal if the previous deployment was dirty".  In every other case
\* the result is the error of the revision-control query that failed.
C16_VerdictOrRevisionControlError ==
    VerifyDone =>
        LET prev_commit == previous_metadata.git.commit
            cur_commit == current_metadata.git.commit
            shares_history ==
                /\ prev_commit \in Odb
                /\ Ancestors(repo.parents, prev_commit)
                       \cap Ancestors(repo.parents, repo.head.target) # {}
            answerable ==
                \/ prev_commit = cur_commit
                \/ /\ RepoUsable
                   /\ prev_commit # MalformedCommit
                   /\ prev_commit = UnknownCommit \/ shares_history
            is_ancestor ==
                \/ prev_commit = cur_commit
                \/ /\ prev_commit \in Odb
                   /\ prev_commit \in Ancestors(repo.parents, repo.head.target)
            same_user == previous_metadata.user = current_metadata.user
        IN  /\ compatible.tag \in {"Ok", "Err"}
            /\ compatible.tag = "Ok" <=> answerable
            /\ compatible.tag = "Ok" =>
                  compatible.val = (is_ancestor /\ (previous_metadata.git.dirty => same_user))
            /\ compatible.tag = "Err" => queries # <<>>

\* the previous commit and HEAD are commits of the repository without a
\* common ancestor, and the call returned the error of the merge-base query.
C16_Witness ==
    /\ VerifyDone
    /\ RepoUsable
    /\ previous_metadata.git.commit \in Odb
    /\ previous_metadata.git.commit # current_metadata.git.commit
    /\ queries = <<"discover", "head", "merge_base">>
    /\ compatible = Err("NotFound", "Merge")

\* ------------------------------------------------------------------------
\* Properties of generate_deployment_metadata (checked under SpecMetadata)
\* ------------------------------------------------------------------------
GenerateDone == generated.tag # "NotReturned"

\* The record the previous metadata parameter stands for: the one its value
\* encodes, or the default record when there is no parameter, it is in
\* PreviousValue state, or its value does not parse.
PreviousRecord ==
    IF /\ metadata_parameter.some
       /\ metadata_parameter.v.variant = "WithValue"
       /\ \E m \in MetadataRecords : to_string(m) = metadata_parameter.v.value
    THEN CHOOSE m \in MetadataRecords : to_string(m) = metadata_parameter.v.value
    ELSE NoMetadata

\* The user the configuration that is asked names, or the stand-in when it
\* names none.
QueriedUser ==
    LET email == IF discover_path THEN worktree.repo_email ELSE worktree.email
    IN  IF email = NoValue THEN "unknown" ELSE email

\* C14: a record generate_deployment_metadata returns has the user and the
\* time just queried.  With a discovery path its git fields are the commit
\* and ref of HEAD and the dirtiness just queried; without one they are the
\* git fields of the previous metadata parameter, or of the default record
\* when no parameter was given, it is PreviousValue, or its value does not
\* parse, and such a parameter is no error: without a path the call fails
\* only if the configuration cannot be opened.
C14_GitFieldsRefreshedOnlyWithPath ==
    GenerateDone =>
        /\ generated.tag = "Ok" =>
              /\ generated.val.user = QueriedUser
              /\ generated.val.when = Now
              /\ discover_path =>
                    generated.val.git =
                        DeploymentMetadataGit(repo.head.target, worktree.ref, worktree.dirty)
              /\ ~discover_path => generated.val.git = PreviousRecord.git
        /\ (~discover_path /\ worktree.config_ok) => generated.tag = "Ok"

\* without a path, the record of an earlier deployment by another user keeps
\* its git fields, which differ from what HEAD would give, while user and
\* time are new.
C14_Witness ==
    /\ GenerateDone
    /\ ~discover_path
    /\ generated.tag = "Ok"
    /\ PreviousRecord # NoMetadata
    /\ generated.val.git = PreviousRecord.git
    /\ generated.val.git.commit = 3
    /\ generated.val.git.dirty
    /\ generated.val.user = "alice"
    /\ PreviousRecord.user = "bob"
    /\ generated.val.when # PreviousRecord.when

\* A query of the call failed: opening the configuration or, with a path,
\* discovering the repository, resolving HEAD, its shorthand or its target,
\* the status scan or the repository's configuration.
FatalQueryFailed ==
    \/ ~worktree.config_ok
    \/ /\ discover_path
       /\ \/ ~repo.discoverable
          \/ repo.head.kind # "ok"
          \/ worktree.ref = NoValue
          \/ ~worktree.statuses_ok
          \/ ~worktree.repo_config_ok

\* The lookup of user.email in the configuration that is asked failed.
EmailLookupFailed ==
    IF discover_path THEN worktree.repo_email = NoValue ELSE worktree.email = NoValue

\* C15 as stated: every failed version-control query, the lookup of
\* user.email included, ends the call with an error, and no record carries
\* the stand-in "unknown".
C15_EveryQueryFailureIsFatal ==
    GenerateDone =>
        /\ (FatalQueryFailed \/ EmailLookupFailed) => generated.tag = "Err"
        /\ generated.tag = "Ok" => generated.val.user # "unknown"

\* C15 as amended: the call ends with a revision-control error, and gives
\* no record, exactly when opening the configuration fails or, with a
\* path, the repository discovery, the HEAD resolution (with its shorthand
\* and target), the status scan or opening the repository's configuration
\* fails.  A failed lookup of user.email is not fatal: the record is
\* produced with the user "unknown".
C15_FailuresFatalExceptEmailLookup ==
    GenerateDone =>
        /\ generated.tag = "Err" <=> FatalQueryFailed
        /\ generated.tag = "Err" => generated.code = "GitError" /\ generated.val = NoMetadata
        /\ (generated.tag = "Ok" /\ EmailLookupFailed) => generated.val.user = "unknown"
        /\ (generated.tag = "Ok" /\ ~EmailLookupFailed) => generated.val.user # "unknown"

\* with a path, the status scan failed while everything before it
\* succeeded, and the call ended with the error.
C15_Witness ==
    /\ GenerateDone
    /\ discover_path
    /\ worktree.config_ok
    /\ repo.discoverable
    /\ repo.head.kind = "ok"
    /\ worktree.ref # NoValue
    /\ ~worktree.statuses_ok
    /\ worktree.repo_config_ok
    /\ generated = ErrMetadata("GitError", "Status")

\* ------------------------------------------------------------------------
\* Properties of update_stack and create_stack (checked under SpecPipeline)
\* ------------------------------------------------------------------------
CompletenessError == Error("InvalidParameters", "completeness")

NotCompatibleError == Error("InvalidTemplate", "not_compatible")

\* update_stack has evaluated the completeness check.
CompletenessChecked ==
    /\ cmd = "update_stack"
    /\ \/ pc \in {"metadata", "verify", "create_change_set", "upload_to_s3", "submit"}
       \/ /\ pc = "done"
          /\ outcome \notin {Error("IoError", "template"),
                             Error("InvalidStack", "describe_stacks"),
                             Error("AwsError", "describe_stacks"),
                             Error("IoError", "parameter_path"),
                             Error("RegexParseError", "excludes"),
                             Error("RegexParseError", "includes")}

\* update_stack has computed new_parameters.
NewParametersComputed ==
    /\ cmd = "update_stack"
    /\ \/ pc \in {"provided", "completeness"}
       \/ CompletenessChecked

\* C5: in update_stack new_parameters holds the template's keys that the
\* stack does not have, and the completeness check passes iff the provided
\* parameters have exactly the keys of new_parameters; without force-create
\* every mismatch ends the run with InvalidParameters and nothing is
\* submitted, and only with force-create a mismatch is let through.
C5_CompletenessIsExactKeyEquality ==
    /\ NewParametersComputed =>
          keys(new_parameters) = keys(template) \ keys(stack_parameters)
    /\ CompletenessChecked =>
          LET exact == keys(provided_parameters) = keys(new_parameters)
          IN  /\ outcome = CompletenessError <=> (~exact /\ ~opt.force_create)
              /\ "completeness" \in warnings <=> (~exact /\ opt.force_create)
              /\ outcome = CompletenessError =>
                    /\ pc = "done"
                    /\ remote = <<>>
                    /\ ~submitted.some

\* every new parameter was provided, together with one that is already on
\* the stack, and the run ended with the error.
C5_Witness ==
    /\ cmd = "update_stack"
    /\ outcome = CompletenessError
    /\ new_parameters # <<>>
    /\ keys(new_parameters) \subseteq keys(provided_parameters)
    /\ keys(provided_parameters) \cap keys(stack_parameters) # {}

\* C6: with force-create neither a completeness mismatch nor a negative
\* verdict of the verifier ends update_stack; each leaves a warning and the
\* run goes on to the next statement.  Without force-create each ends the
\* run with its error before anything is submitted.
C6_ForceDowngradesBothChecks ==
    cmd = "update_stack" =>
        /\ (CompletenessChecked
              /\ keys(provided_parameters) # keys(new_parameters)
              /\ opt.force_create) =>
                 /\ "completeness" \in warnings
                 /\ outcome # CompletenessError
        /\ (compatible = Ok(FALSE) /\ opt.force_create) =>
                 /\ "not_compatible" \in warnings
                 /\ outcome # NotCompatibleError
                 /\ pc \in {"create_change_set", "upload_to_s3", "submit", "done"}
                 /\ contains_key(template_parameters, MetadataKey)
        /\ (CompletenessChecked
              /\ keys(provided_parameters) # keys(new_parameters)
              /\ ~opt.force_create) => outcome = CompletenessError
        /\ (compatible = Ok(FALSE) /\ ~opt.force_create) => outcome = NotCompatibleError
        /\ outcome \in {CompletenessError, NotCompatibleError} =>
                 /\ ~opt.force_create
                 /\ pc = "done"
                 /\ remote = <<>>
                 /\ ~submitted.some
        /\ warnings \cap {"completeness", "not_compatible"} # {} => opt.force_create

\* a forced run failed both checks and still created its change set.
C6_Witness ==
    /\ cmd = "update_stack"
    /\ opt.force_create
    /\ {"completeness", "not_compatible"} \subseteq warnings
    /\ compatible = Ok(FALSE)
    /\ outcome = Success
    /\ submitted.some

\* C7 as stated: nothing remote is changed before the change-set
\* submission; a failed run has changed nothing and a successful run has
\* made exactly one change, the submission.
C7_NoMutationBeforeSubmission ==
    /\ pc # "done" => remote = <<>>
    /\ (pc = "done" /\ outcome.tag = "Err") => remote = <<>>
    /\ (pc = "done" /\ outcome = Success) => remote = <<"create_change_set">>

\* C7 as amended: CloudFormation is changed only by the final change-set
\* submission, which is the last remote call of every successful run.  S3
\* is changed at most once, by the template upload that
\* Template::create_change_set makes right before the submission when a
\* bucket is configured.  So a failed run has changed nothing, unless the
\* submission itself failed after the upload; and a successful run has made
\* the submission, after one upload iff a bucket is configured.
C7_OnlyUploadPrecedesSubmission ==
    /\ remote \in {<<>>, <<"put_object">>, <<"create_change_set">>,
                   <<"put_object", "create_change_set">>}
    /\ remote # <<>> => pc \in {"submit", "done"}
    /\ (remote # <<>> /\ remote[1] = "put_object") => opt.s3_bucket_name
    /\ (pc = "done" /\ outcome.tag = "Err") =>
          \/ remote = <<>>
          \/ /\ remote = <<"put_object">>
             /\ outcome = Error("AwsError", "create_change_set")
    /\ (pc = "done" /\ outcome = Success) =>
          remote = IF opt.s3_bucket_name
                   THEN <<"put_object", "create_change_set">>
                   ELSE <<"create_change_set">>
    /\ (pc # "done" /\ ~opt.s3_bucket_name) => remote = <<>>

\* the template was uploaded, and then the submission failed.
C7_Witness ==
    /\ pc = "done"
    /\ outcome = Error("AwsError", "create_change_set")
    /\ remote = <<"put_object">>
    /\ submitted.some

\* ------------------------------------------------------------------------
\* Properties of the submitted parameters (checked under SpecPipeline for
\* update_stack and under SpecOverride for override_parameters)
\* ------------------------------------------------------------------------
\* The parameters handed to cfn.create_change_set.
Submitted == submitted.v

\* The file names key k with a value, and the exclude and include patterns
\* let it through.
FileNames(k) ==
    /\ opt.parameter_path.given
    /\ \E i \in 1..Len(opt.parameter_path.contents) :
          /\ opt.parameter_path.contents[i].key = k
          /\ opt.parameter_path.contents[i].variant = "WithValue"
    /\ ~is_match(opt.filters.excludes, k)
    /\ opt.filters.includes # <<>> => is_match(opt.filters.includes, k)

\* The entry the file gives for key k.
FileEntry(k) == get(opt.parameter_path.contents, k)

\* The parameter the generated metadata record is submitted as.
GeneratedMetadataParameter == WithValue(MetadataKey, to_string(current_metadata))

\* C17: the parameters override_parameters submits have exactly the keys
\* of the stack's current parameters, and every stack parameter other than
\* the deployment-metadata parameter that neither a command-line override
\* nor a value-carrying, unfiltered entry of the file names is submitted as
\* PreviousValue.
C17_OverrideKeepsTheStackKeys ==
    (cmd = "override_parameters" /\ submitted.some) =>
        /\ UniqueKeys(Submitted)
        /\ keys(Submitted) = keys(deployed.v)
        /\ \A k \in keys(deployed.v) \ {MetadataKey} :
              (k \notin keys(opt.parameters) /\ ~FileNames(k))
                 => get(Submitted, k) = PreviousValue(k)

\* an override names a key the stack does not have and one it has; the
\* change set is submitted with the stack's keys, one overridden and one left
\* as PreviousValue.
C17_Witness ==
    /\ cmd = "override_parameters"
    /\ submitted.some
    /\ keys(opt.parameters) \ keys(deployed.v) # {}
    /\ \E k \in keys(deployed.v) \cap keys(opt.parameters) :
          get(Submitted, k).variant = "WithValue"
    /\ \E k \in keys(deployed.v) \ {MetadataKey} : get(Submitted, k) = PreviousValue(k)
    /\ keys(Submitted) = keys(deployed.v)

\* The value the user supplied for key k to update_stack.
Supplied(k) ==
    IF opt.parameter_path.given THEN FileEntry(k) ELSE get(opt.parameters, k)

\* C18 as stated: in a run of update_stack without force-create that
\* reaches the submission, every template parameter the stack already has,
\* other than the deployment-metadata parameter, is submitted as
\* PreviousValue, and every new template parameter is submitted WithValue
\* with the value the user supplied.
C18_OldKeptNewAsSupplied ==
    (cmd = "update_stack" /\ ~opt.force_create /\ submitted.some) =>
        /\ \A k \in (keys(template) \cap keys(deployed.v)) \ {MetadataKey} :
              get(Submitted, k) = PreviousValue(k)
        /\ \A k \in keys(template) \ keys(deployed.v) :
              /\ get(Submitted, k).variant = "WithValue"
              /\ get(Submitted, k) = Supplied(k)

\* C18 as amended: in such a run the deployment-metadata parameter, when
\* the template declares it and the metadata update is not switched off, is
\* submitted WithValue with the generated record, whether the stack has it
\* or it is new (the value supplied for it is replaced).  Every other
\* template parameter is submitted as PreviousValue when the stack already
\* has it, and WithValue with the value the user supplied when it is new.
C18_OldKeptNewAsSuppliedButMetadata ==
    (cmd = "update_stack" /\ ~opt.force_create /\ submitted.some) =>
        /\ keys(Submitted) = keys(template)
        /\ \A k \in keys(template) :
              IF k = MetadataKey /\ ~opt.dont_update_deployment_metadata
              THEN get(Submitted, k) = GeneratedMetadataParameter
              ELSE IF k \in keys(deployed.v)
              THEN get(Submitted, k) = PreviousValue(k)
              ELSE /\ get(Submitted, k).variant = "WithValue"
                   /\ get(Submitted, k) = Supplied(k)

\* the template declares a parameter with a default that the stack has,
\* and a new one the user supplied; the first is submitted as
\* PreviousValue, the second with the supplied value.
C18_Witness ==
    /\ cmd = "update_stack"
    /\ ~opt.force_create
    /\ submitted.some
    /\ \E k \in keys(template) \cap keys(deployed.v) :
          /\ get(template, k).variant = "WithValue"
          /\ get(Submitted, k) = PreviousValue(k)
    /\ \E k \in keys(template) \ keys(deployed.v) :
          /\ k # MetadataKey
          /\ get(Submitted, k) = Supplied(k)
          /\ get(Submitted, k).variant = "WithValue"

\* The exclude and include patterns would remove key k.
Filtered(k) ==
    \/ is_match(opt.filters.excludes, k)
    \/ opt.filters.includes # <<>> /\ ~is_match(opt.filters.includes, k)

\* C19 as stated: in override_parameters a key of the stack given both in
\* the file and as an override is submitted with the override's value; the
\* overrides come after the file and the filters do not touch them, so an
\* override of a stack key the patterns would remove is submitted as given.
C19_OverrideWinsOverFile ==
    (cmd = "override_parameters" /\ submitted.some) =>
        /\ \A k \in keys(deployed.v) \cap keys(opt.parameters) :
              k \in keys(opt.parameter_path.contents)
                 => get(Submitted, k) = get(opt.parameters, k)
        /\ \A k \in keys(deployed.v) \cap keys(opt.parameters) :
              Filtered(k) => get(Submitted, k) = get(opt.parameters, k)

\* C19 as amended: the same, for every key but the deployment-metadata
\* parameter while the metadata update is not switched off: that parameter
\* is submitted with the generated record, whatever the file and the
\* overrides give for it.  A stack key only the file names is submitted
\* with the file's value if the filters let it through, and as
\* PreviousValue if they remove it.
C19_OverrideWinsOverFileButMetadata ==
    (cmd = "override_parameters" /\ submitted.some) =>
        \A k \in keys(deployed.v) :
            IF k = MetadataKey /\ ~opt.dont_update_deployment_metadata
            THEN get(Submitted, k) = GeneratedMetadataParameter
            ELSE IF k \in keys(opt.parameters)
            THEN get(Submitted, k) = get(opt.parameters, k)
            ELSE IF FileNames(k)
            THEN get(Submitted, k) = FileEntry(k)
            ELSE get(Submitted, k) = PreviousValue(k)

\* a stack key is given in the file with one value and as an override with
\* another, an exclude pattern matches it, and the override's value is
\* submitted.
C19_Witness ==
    /\ cmd = "override_parameters"
    /\ submitted.some
    /\ \E k \in keys(deployed.v) \cap keys(opt.parameters) :
          /\ k \in keys(opt.parameter_path.contents)
          /\ FileEntry(k).variant = "WithValue"
          /\ FileEntry(k) # get(opt.parameters, k)
          /\ is_match(opt.filters.excludes, k)
          /\ get(Submitted, k) = get(opt.parameters, k)

\* ------------------------------------------------------------------------
\* Sequences of operations (SpecOrder)
\* ------------------------------------------------------------------------
\* k1 iterates before k2 in m.
Before(m, k1, k2) == index_of(m, k1) < index_of(m, k2)

\* C21: after any sequence of update, merge, subtract and apply_defaults the
\* keys that remain from the original set iterate in the relative order in
\* which they were originally inserted, and the keys that were added since
\* come after them.
C21_InsertionOrderKept ==
    /\ \A k1, k2 \in remaining : Before(A, k1, k2) => Before(self, k1, k2)
    /\ \A k1 \in remaining : \A k2 \in keys(self) \ remaining : Before(self, k1, k2)

\* Where the order is lost: a subtraction has removed a key that was not the
\* last one while two of the original keys remain.
C21_Witness ==
    /\ op = "sub" /\ Cardinality(remaining) = 2 /\ keys(self) = remaining
    /\ Len(A) = 3 /\ B # <<>> /\ B[1].key = A[1].key

\* ------------------------------------------------------------------------
\* Compositions and construction (SpecAlgebra)
\* ------------------------------------------------------------------------
\* C22: (A.merge(B)).subtract(B) equals A.subtract(B): what is left are the
\* entries of A whose key B does not have; when A and B share no key, that
\* is A.
C22_SubAfterMergeIsSub ==
    op = "merged_sub" =>
        /\ UniqueKeys(ret)
        /\ MapEq(ret, sub(A, B))
        /\ Range(ret) = {p \in Range(A) : p.key \notin keys(B)}
        /\ (keys(A) \cap keys(B) = {} => MapEq(ret, A))

\* B replaces an entry of A, adds a key of its own, and something is left.
C22_Witness ==
    /\ op = "merged_sub"
    /\ \E k \in keys(A) \cap keys(B) : get(A, k) # get(B, k)
    /\ keys(B) \ keys(A) # {}
    /\ ret # <<>>

\* The parameters handed to Parameters::new by the action New.
NewList == A \o B

\* C24: Parameters::new returns a collection with exactly one entry per
\* distinct key of the list, and for a key several parameters share, the
\* entry is the last of them in the list.
C24_NewKeepsTheLastOfAKey ==
    op = "new" =>
        /\ UniqueKeys(ret)
        /\ keys(ret) = {NewList[i].key : i \in 1..Len(NewList)}
        /\ \A i \in 1..Len(NewList) :
              (\A j \in (i + 1)..Len(NewList) : NewList[j].key # NewList[i].key)
                  => get(ret, NewList[i].key) = NewList[i]

\* The list holds two different parameters of one key.
C24_Witness ==
    /\ op = "new"
    /\ \E i, j \in 1..Len(NewList) :
          i < j /\ NewList[i].key = NewList[j].key /\ NewList[i] # NewList[j]

\* C28: A.loose_difference(B) is None exactly when A.loosely_equal(B); so
\* the difference of a collection with itself is None.
C28_NoDifferenceIffLooselyEqual ==
    op = "loose_difference" =>
        /\ (~ret.some <=> loosely_equal(A, B))
        /\ (A = B => ~ret.some)

\* The one-sided case: B is loosely equal to A, A is not to B, and a
\* difference is reported.
C28_Witness ==
    /\ op = "loose_difference"
    /\ ret.some
    /\ loosely_equal(B, A)
    /\ A # <<>>

\* ------------------------------------------------------------------------
\* Parsing (SpecParse)
\* ------------------------------------------------------------------------
\* The call has returned.
ParseDone == op = "from_str"

\* C23: a parameter string is split at its first '=' only: the key is the
\* text before the first '=' and the value is everything after it, further
\* '=' included; a string without '=' fails to parse with an error.
C23_SplitAtTheFirstEquals ==
    ParseDone =>
        IF \E i \in 1..Len(text) : text[i] = "="
        THEN /\ ret.tag = "Ok"
             /\ ret.val.variant = "WithValue"
             /\ \A i \in 1..Len(ret.val.key) : ret.val.key[i] # "="
             /\ ret.val.key \o <<"=">> \o ret.val.value = text
        ELSE ret.tag = "Err"

\* A string with a second '=', which ends up in the value.
C23_Witness ==
    /\ ParseDone
    /\ ret.tag = "Ok"
    /\ ret.val.key # <<>>
    /\ \E i \in 1..Len(ret.val.value) : ret.val.value[i] = "="

\* ------------------------------------------------------------------------
\* The compatibility gate and the submitted keys of update_stack, and the
\* metadata parameter of create_stack (SpecPipeline)
\* ------------------------------------------------------------------------
\* The three conditions under which update_stack consults the verifier: the
\* metadata update is not switched off, the template declares the metadata
\* parameter, and the value the stack holds for it parsed as a record.
MetadataEnabled == ~opt.dont_update_deployment_metadata

MetadataDeclared == MetadataKey \in keys(template)

PreviousParsed == previous_metadata # NoMetadata

\* update_stack is past the statements that read the stack's metadata
\* parameter and generate the new record.
MetadataStageDone ==
    /\ cmd = "update_stack"
    /\ \/ pc \in {"verify", "create_change_set", "upload_to_s3", "submit"}
       \/ /\ pc = "done"
          /\ CompletenessChecked
          /\ outcome # CompletenessError
          /\ outcome # Error("AwsError", "get_parameter")
          /\ ~(outcome.kind = "GitError" /\ compatible = NotReturned)

\* The run is in Template::create_change_set, or has ended in it.
InSubmission ==
    \/ pc \in {"create_change_set", "upload_to_s3", "submit"}
    \/ /\ pc = "done"
       /\ outcome \in {Success, Error("AwsError", "put_object"),
                       Error("AwsError", "create_change_set")}

\* C25: update_stack ends with InvalidTemplate, and submits nothing, exactly
\* when the metadata update is enabled, the template declares the metadata
\* parameter, the stack's value for it parsed as a record, the verifier
\* answered false and force-create is not set.  When one of the first three
\* does not hold the verifier is not consulted and the run goes on to the
\* submission.
C25_InvalidTemplateIffGateFails ==
    cmd = "update_stack" =>
        /\ outcome = NotCompatibleError <=>
              /\ MetadataEnabled
              /\ MetadataDeclared
              /\ PreviousParsed
              /\ compatible = Ok(FALSE)
              /\ ~opt.force_create
        /\ (outcome.tag = "Err" /\ outcome.kind = "InvalidTemplate") =>
              /\ outcome = NotCompatibleError
              /\ pc = "done"
              /\ ~submitted.some
              /\ remote = <<>>
        /\ compatible # NotReturned =>
              MetadataEnabled /\ MetadataDeclared /\ PreviousParsed
        /\ (MetadataStageDone /\ ~(MetadataEnabled /\ MetadataDeclared /\ PreviousParsed)) =>
              /\ compatible = NotReturned
              /\ queries = <<>>
              /\ InSubmission

\* The stack holds the record of a commit that has diverged from HEAD, and
\* the unforced run ended with the error.
C25_Witness ==
    /\ cmd = "update_stack"
    /\ outcome = NotCompatibleError
    /\ previous_metadata.git.commit = 3
    /\ ~previous_metadata.git.dirty
    /\ ~opt.force_create
    /\ ~submitted.some

\* The user gave update_stack no value for key k: neither on the command
\* line, nor in the parameter file, nor in the file of defaults.
NoUserValue(k) ==
    /\ k \notin keys(opt.parameters)
    /\ ~(opt.parameter_path.given /\ k \in keys(opt.parameter_path.contents))
    /\ ~(opt.parameter_defaults_path.some /\ k \in keys(opt.parameter_defaults_path.v))

\* C26: in update_stack every template parameter that declares a default
\* and for which the user supplied no value is submitted WithValue, carrying
\* the default of the template.
C26_TemplateDefaultsSubmitted ==
    (cmd = "update_stack" /\ submitted.some) =>
        \A k \in keys(template) :
            (get(template, k).variant = "WithValue" /\ NoUserValue(k))
                => /\ contains_key(Submitted, k)
                   /\ get(Submitted, k) = get(template, k)

\* A parameter with a default, for which the user gave nothing and which
\* the stack already has, is submitted as PreviousValue in an unforced run.
C26_Witness ==
    /\ cmd = "update_stack"
    /\ submitted.some
    /\ ~opt.force_create
    /\ outcome = Success
    /\ \E k \in keys(template) \cap keys(deployed.v) :
          /\ get(template, k).variant = "WithValue"
          /\ NoUserValue(k)
          /\ get(Submitted, k) = PreviousValue(k)

\* C29: the parameters update_stack hands to Template::create_change_set
\* have exactly the keys the template declares, whatever was provided,
\* whatever the flags and whatever the stack holds; so the validation of
\* Template::create_change_set never fails in update_stack.
C29_UpdateHandsOverTheDeclaredKeys ==
    cmd = "update_stack" =>
        /\ pc \in {"create_change_set", "upload_to_s3", "submit"} =>
              /\ UniqueKeys(template_parameters)
              /\ keys(template_parameters) = keys(template)
        /\ submitted.some => keys(Submitted) = keys(template)
        /\ outcome # Error("InvalidParameters", "template")

\* A forced run whose user named a key the template does not declare, on a
\* stack with a key the template does not declare either, has passed the
\* validation and submitted.
C29_Witness ==
    /\ cmd = "update_stack"
    /\ opt.force_create
    /\ keys(provided_parameters) \ keys(template) # {}
    /\ keys(deployed.v) \ keys(template) # {}
    /\ keys(template) \ keys(deployed.v) # {}
    /\ submitted.some
    /\ outcome = Success

\* create_stack has inserted the generated metadata parameter.
MetadataInserted ==
    /\ cmd = "create_stack"
    /\ contains_key(template_parameters, MetadataKey)
    /\ get(template_parameters, MetadataKey) = GeneratedMetadataParameter

\* C30: create_stack with the metadata update enabled inserts the metadata
\* parameter whether or not the template declares it.  For a template that
\* does not declare it the run never submits a change set: once the
\* parameter is inserted the run ends with InvalidParameters, and when
\* force-create is set or every required parameter was provided, that is
\* the error of the key-set validation of Template::create_change_set.
C30_UndeclaredMetadataNeverSubmits ==
    (cmd = "create_stack" /\ MetadataEnabled) =>
        /\ pc \in {"missing", "create_change_set", "upload_to_s3", "submit"} => MetadataInserted
        /\ ~MetadataDeclared =>
              /\ ~submitted.some
              /\ remote = <<>>
              /\ outcome # Success
              /\ pc \notin {"upload_to_s3", "submit"}
              /\ (pc = "done" /\ MetadataInserted) =>
                    /\ outcome.tag = "Err"
                    /\ outcome.kind = "InvalidParameters"
                    /\ (opt.force_create
                          \/ \A i \in 1..Len(template_parameters) :
                                ~is_previous_value(template_parameters[i]))
                          => outcome = Error("InvalidParameters", "template")

\* A forced run on a template without the metadata parameter, every
\* parameter of which has a value, has ended with the validation error.
C30_Witness ==
    /\ cmd = "create_stack"
    /\ MetadataEnabled
    /\ ~MetadataDeclared
    /\ opt.force_create
    /\ template # <<>>
    /\ keys(template_parameters) = keys(template) \cup {MetadataKey}
    /\ \A i \in 1..Len(template_parameters) : ~is_previous_value(template_parameters[i])
    /\ outcome = Error("InvalidParameters", "template")

\* ------------------------------------------------------------------------
\* The empty override (SpecOverride)
\* ------------------------------------------------------------------------
\* Nothing is specified to override_parameters: no override on the command
\* line, and no entry of the parameter file that the patterns let through.
NothingSpecified ==
    /\ opt.parameters = <<>>
    /\ \A i \in 1..Len(opt.parameter_path.contents) :
          Filtered(opt.parameter_path.contents[i].key)

\* C27: when nothing is specified to override_parameters, or every
\* parameter of the file is filtered out, no change set is created and the
\* command reports an unsuccessful result.
C27_NothingSpecifiedNothingCreated ==
    (cmd = "override_parameters" /\ NothingSpecified) =>
        /\ ~submitted.some
        /\ remote = <<>>
        /\ pc = "done" => outcome # Success

\* Nothing was specified, the stack has parameters, and the change set was
\* created with every parameter but the metadata as PreviousValue.
C27_Witness ==
    /\ cmd = "override_parameters"
    /\ NothingSpecified
    /\ deployed.some
    /\ deployed.v # <<>>
    /\ submitted.some
    /\ \A k \in keys(Submitted) \ {MetadataKey} : get(Submitted, k) = PreviousValue(k)
    /\ outcome = Success

====
